---- MODULE Spec2Model ----
(***************************************************************************)
(* Model of the peer-discovery and file-transfer core of VITShare         *)
(* (src/FileShare11.py, class P2PFileSharerBackend).                       *)
(*                                                                         *)
(* A byte string is a sequence of tokens.  A token stands for a run of    *)
(* bytes that contains no newline (one JSON member, one brace, one reply   *)
(* word, one payload byte); "\n" is the newline byte itself.  A socket    *)
(* read returns any non-empty prefix of what the peer still has to send,  *)
(* so every split of a stream at token boundaries is explored.            *)
(***************************************************************************)
EXTENDS Integers, Sequences, FiniteSets, TLC

(* ---------------- bounds of the model ---------------- *)
MaxConns == 2        \* inbound connections the transfer listener accepts
MaxPayload == 2      \* payload bytes a client sends after its header
MaxSize == 2         \* largest filesize a header declares
MaxReply == 2        \* bytes the remote receiver replies with
MaxTime == 45        \* the clock stops here
TickStep == 15       \* seconds the clock advances in one step
MaxHeader == 8       \* header bytes the model tells apart before the first newline
MaxQR == 2           \* connections to the pairing port

(* ---------------- program constants ---------------- *)
PEER_TIMEOUT == 30
BUFFER_SIZE == 16 * 1048576
HEADER_RECV == 1024
QR_MAX == 4096
QR_GRACE == 300
QR_RECV == 1024
BROADCAST_MAGIC == "c0d3-p2p-share-v1"
nickname == "me"
local_ip == "10.0.0.9"

None == "None"
NL == "\n"
SP == " "

Conns == 1..MaxConns
Min(a, b) == IF a < b THEN a ELSE b

Take(s, k) == SubSeq(s, 1, k)
Drop(s, k) == SubSeq(s, k + 1, Len(s))
Range(s) == {s[i] : i \in 1..Len(s)}

(* ---------------- bytes.split(b'\n', 1) ---------------- *)
FirstNL(s) == CHOOSE i \in 1..Len(s) : s[i] = NL /\ \A j \in 1..(i - 1) : s[j] # NL
SplitHead(s) == Take(s, FirstNL(s) - 1)
\* SplitTail, were the bytes read along with the header discarded
SplitTail_DropsRest(s) == <<>>
SplitTail(s) == Drop(s, FirstNL(s))

(* ---------------- bytes.strip() / str.strip() ---------------- *)
IsSpace(t) == t \in {SP, NL}
RECURSIVE lstrip(_)
lstrip(s) == IF s # <<>> /\ IsSpace(Head(s)) THEN lstrip(Tail(s)) ELSE s
RECURSIVE rstrip(_)
rstrip(s) == IF s # <<>> /\ IsSpace(s[Len(s)]) THEN rstrip(Take(s, Len(s) - 1)) ELSE s
strip(s) == rstrip(lstrip(s))

(* ---------------- json.loads(bytes.decode('utf-8')) ---------------- *)
(* A JSON object is a record: keys is the set of members present, the     *)
(* other fields hold their values (a default of the member's type when    *)
(* the member is absent).                                                  *)
EmptyObj ==
  [keys |-> {}, filename |-> <<>>, filesize |-> 0, type |-> None,
   nickname |-> None, device_type |-> None, ip |-> None, magic |-> None,
   sender_nickname |-> None, status |-> None]

StrMember ==
  [t \in {"ty=file", "ty=directory", "ty=qr_handshake", "nk=bob", "nk=amy",
          "nk=me", "nk=", "dt=desktop", "dt=android", "ip=10.0.0.1",
          "ip=10.0.0.2", "mg=ok", "mg=bad", "sn=bob", "sn=me"} |->
     CASE t = "ty=file" -> <<"type", "file">>
       [] t = "ty=directory" -> <<"type", "directory">>
       [] t = "ty=qr_handshake" -> <<"type", "qr_handshake">>
       [] t = "nk=bob" -> <<"nickname", "bob">>
       [] t = "nk=amy" -> <<"nickname", "amy">>
       [] t = "nk=me" -> <<"nickname", nickname>>
       [] t = "nk=" -> <<"nickname", "">>
       [] t = "dt=desktop" -> <<"device_type", "desktop">>
       [] t = "dt=android" -> <<"device_type", "android">>
       [] t = "ip=10.0.0.1" -> <<"ip", "10.0.0.1">>
       [] t = "ip=10.0.0.2" -> <<"ip", "10.0.0.2">>
       [] t = "mg=ok" -> <<"magic", BROADCAST_MAGIC>>
       [] t = "mg=bad" -> <<"magic", "other-app">>
       [] t = "sn=bob" -> <<"sender_nickname", "bob">>
       [] t = "sn=me" -> <<"sender_nickname", nickname>>]

NameMember ==
  [t \in {"fn=a.txt", "fn=b.txt", "fn=../a.txt", "fn=d/", "fn=d.zip", "fn=.."} |->
     CASE t = "fn=a.txt" -> <<"a.txt">>
       [] t = "fn=b.txt" -> <<"b.txt">>
       [] t = "fn=../a.txt" -> <<"..", "/", "a.txt">>
       [] t = "fn=d/" -> <<"d", "/">>
       [] t = "fn=d.zip" -> <<"d.zip">>
       [] t = "fn=.." -> <<"..">>]

SizeTok(n) == <<"fs=0", "fs=1", "fs=2", "fs=3", "fs=4">>[n + 1]
SizeMember == [t \in {SizeTok(n) : n \in 0..4} |-> CHOOSE n \in 0..4 : SizeTok(n) = t]

IsMember(t) == t \in DOMAIN StrMember \cup DOMAIN NameMember \cup DOMAIN SizeMember

SetMember(obj, t) ==
  IF t \in DOMAIN StrMember
    THEN [obj EXCEPT !.keys = @ \cup {StrMember[t][1]}, ![StrMember[t][1]] = StrMember[t][2]]
  ELSE IF t \in DOMAIN NameMember
    THEN [obj EXCEPT !.keys = @ \cup {"filename"}, !.filename = NameMember[t]]
  ELSE [obj EXCEPT !.keys = @ \cup {"filesize"}, !.filesize = SizeMember[t]]

RECURSIVE Members(_, _)
Members(obj, toks) ==
  IF toks = <<>> THEN obj ELSE Members(SetMember(obj, Head(toks)), Tail(toks))

\* kind: "object" (a dict), "scalar" (valid JSON that is no dict),
\* "JSONDecodeError", "UnicodeDecodeError"
json_loads(bytes) ==
  LET s == strip(bytes) IN
  IF "\\xff" \in Range(bytes) THEN [kind |-> "UnicodeDecodeError", obj |-> EmptyObj]
  ELSE IF s = <<"5">> THEN [kind |-> "scalar", obj |-> EmptyObj]
  ELSE IF /\ Len(s) >= 2
          /\ s[1] = "{"
          /\ s[Len(s)] = "}"
          /\ \A i \in 2..(Len(s) - 1) : IsMember(s[i])
    THEN [kind |-> "object", obj |-> Members(EmptyObj, SubSeq(s, 2, Len(s) - 1))]
  ELSE [kind |-> "JSONDecodeError", obj |-> EmptyObj]

\* dict.get(key, default)
get(obj, key, default) == IF key \in obj.keys THEN obj[key] ELSE default

(* ---------------- os.path.basename ---------------- *)
RECURSIVE basename(_)
basename(path) ==
  IF path = <<>> THEN <<>>
  ELSE IF path[Len(path)] = "/" THEN <<>>
  ELSE basename(Take(path, Len(path) - 1)) \o <<path[Len(path)]>>

(* ---------------- state ---------------- *)
VARIABLES
  running,           \* self.running
  now,               \* time.time(), in seconds
  peers,             \* self.peers: nickname -> entry
  upserted,          \* history: nickname -> address of its latest upsert, dropped on eviction
  active_transfers,  \* self.active_transfers: transfer id -> entry
  handler,           \* locals and position of each handle_item_receive thread
  wire,              \* bytes the remote client has still to deliver on each connection
  peer_end,          \* what the client does after its last byte: "close", "silent",
                     \* "endless" (it goes on sending); "none": no client
  conn_out,          \* what the receiver passed to conn.sendall, in order
  downloads,         \* DOWNLOAD_DIR: file name -> inode
  files,             \* inode -> content
  created,           \* history: connections whose handler created or truncated a file
  log,               \* log_callback: the lines of each transfer thread, and the lines
                     \* of the latest step of the long-lived services
  requests,          \* connections for which transfer_request_callback was called
  receive_active,    \* receive_active_callback arguments of each connection, in order
  receive_progress,  \* receive_progress_callback arguments of each connection
  share,             \* SHARE_DIR: item name -> its bytes (a file) or "directory"
  send,              \* locals and position of the send_item thread
  s_wire,            \* bytes the remote receiver will reply with
  s_end,             \* what the remote receiver does after them: "close", "silent"
  s_out,             \* what send_item passed to s.sendall, in order
  temp_zip,          \* whether the temporary archive exists
  send_active,       \* send_active_callback arguments, in order
  send_progress,     \* send_progress_callback arguments
  heard,             \* history: the datagram of the latest recvfrom of the discovery
                     \* listener, where a specification records it
  loop,              \* position of each long-lived service thread
  peers_lock,        \* self.peers_lock: the threads inside a "with self.peers_lock" block
  transfer_lock,     \* self.transfer_lock: the threads inside a "with self.transfer_lock" block
  thread,            \* position and locals of each thread where a specification follows
                     \* it statement by statement through its locked sections
  last,              \* history: the latest statement such a thread executed
  qr                 \* each connection to the pairing port: position and locals of
                     \* its handle_qr_connection thread, the bytes its peer has
                     \* still to deliver, what the peer does after them, and what
                     \* was passed to conn.sendall

vars == <<running, now, peers, upserted, active_transfers, handler, wire, peer_end,
          conn_out, downloads, files, created, log, requests, receive_active,
          receive_progress, share, send, s_wire, s_end, s_out, temp_zip, send_active,
          send_progress, qr, heard, loop, peers_lock, transfer_lock, thread, last>>

regVars == <<peers, upserted>>
fsVars == <<downloads, files, created>>
netVars == <<wire, peer_end, conn_out>>
cbVars == <<requests, receive_active, receive_progress>>
sendVars == <<share, send, s_wire, s_end, s_out, temp_zip, send_active, send_progress>>
lockVars == <<peers_lock, transfer_lock, thread, last>>

(* ---------------- helpers on the state ---------------- *)
recvTask(c) == <<"handle_item_receive", c>>
sendTask == <<"send_item", 0>>
\* the long-lived services (accept loops, discovery listener, sweeper, pairing
\* connections) share one slot: the lines of the latest service step
serviceTask == <<"services", 0>>
Tasks == {recvTask(c) : c \in Conns} \cup {serviceTask, sendTask}

Logged(l, task, line) == [l EXCEPT ![task] = @ \cup {line}]
\* the lines of a new run of a task replace those of its previous run
Emit(l, task, lines) == [l EXCEPT ![task] = lines]

Put(f, k, v) == [x \in DOMAIN f \cup {k} |-> IF x = k THEN v ELSE f[x]]
Del(f, k) == [x \in DOMAIN f \ {k} |-> f[x]]

\* addr[0] of an accepted connection
addr(c) == IF c = 1 THEN "10.0.0.1" ELSE "10.0.0.2"

\* str(uuid.uuid4()): distinct for distinct handlers
uuid4(c) == <<"uuid", c>>

DOWNLOAD_DIR == <<"downloads">>
\* join, were the destination not named after the request's filename
join_OneName(dir, name) == dir \o <<"/">> \o <<"a.txt">>
join(dir, name) == dir \o <<"/">> \o name
exists(dl, path) ==
  \/ path = DOWNLOAD_DIR
  \/ path = join(DOWNLOAD_DIR, <<>>)
  \/ \E n \in DOMAIN dl : path = join(DOWNLOAD_DIR, n)
NameOf(path) == Drop(path, Len(DOWNLOAD_DIR) + 1)

RECURSIVE Zeros(_)
Zeros(n) == IF n <= 0 THEN <<>> ELSE <<"\\0">> \o Zeros(n - 1)

\* WriteAt, were every write made at the start of the file
WriteAt_AtStart(content, pos, data) == data \o Drop(content, Len(data))

\* file.write at position pos of an inode's content (a hole reads as zero bytes)
WriteAt(content, pos, data) ==
  LET padded == IF Len(content) < pos THEN content \o Zeros(pos - Len(content)) ELSE content
  IN  Take(padded, pos) \o data \o Drop(padded, pos + Len(data))

\* one entry of self.peers
Entry(ip, last_seen, device_type, qr_connected) ==
  [ip |-> ip, last_seen |-> last_seen, device_type |-> device_type,
   qr_connected |-> qr_connected]

\* PairingEntry, were last-seen the current time
PairingEntry_NoGrace(peer_ip, t, device_type) == Entry(peer_ip, t, device_type, TRUE)

\* PairingEntry, were the entry written like a discovered one
PairingEntry_Unpinned(peer_ip, t, device_type) == Entry(peer_ip, t + QR_GRACE, device_type, FALSE)

\* the entry both pairing paths write
PairingEntry(peer_ip, t, device_type) == Entry(peer_ip, t + QR_GRACE, device_type, TRUE)

\* the threads start_services starts; each is at "start" (before its loop), at
\* "check" (the test of "while self.running"), in the "body" of a pass, or has
\* "exited" its loop or "failed" to start
Loops == {"broadcast_presence", "listen_for_peers", "cleanup_stale_peers", "file_server",
          "qr_connect_server"}
Listeners == {"listen_for_peers", "file_server", "qr_connect_server"}

\* the threads followed statement by statement through their locked sections
Threads == {"listen_for_peers", "cleanup_stale_peers", "get_peer_dict",
            "handle_item_receive", "handle_qr_connection"}
InitThread == [pc |-> "idle", peer_nickname |-> None, current_time |-> 0, stale_peers |-> {}]
NoStatement == [thread |-> None, op |-> None, map |-> None]

\* connections to the pairing port, in the order the listener accepts them
QRConns == 1..MaxQR
InitQR == [pc |-> "idle", data |-> <<>>, wire |-> <<>>, peer_end |-> "none", out |-> <<>>]

InitSend ==
  [pc |-> "idle", peer_nickname |-> None, item_name |-> None, peer_ip |-> None,
   item_type |-> None, filename |-> <<>>, filesize |-> 0, header |-> <<>>,
   line |-> <<>>, response |-> <<>>, reply_read |-> FALSE, sent_bytes |-> 0,
   unread |-> <<>>]

InitHandler ==
  [pc |-> "idle", metadata_bytes |-> <<>>, remaining_data |-> <<>>,
   remaining_bound |-> FALSE, metadata |-> EmptyObj, accepted |-> FALSE,
   filepath |-> <<>>, filesize |-> 0, item_type |-> None, received_bytes |-> 0,
   fh |-> 0, exc |-> None, written |-> 0]

(* ======================================================================= *)
(* File Transfer Server: file_server and handle_item_receive               *)
(* ======================================================================= *)

\* what conn.recv(bufsize) can return on connection c: a non-empty prefix of the
\* pending bytes, b'' once the peer has closed, or a socket.timeout
RecvData(c, bufsize) == {Take(wire[c], k) : k \in 1..Min(bufsize, Len(wire[c]))}
RecvClosed(c) == wire[c] = <<>> /\ peer_end[c] = "close"
RecvTimeout(c) == wire[c] = <<>> /\ peer_end[c] \in {"silent", "endless"}

\* metadata_bytes += chunk has no limit; of a header that has grown beyond
\* MaxHeader bytes without a newline the model keeps the first MaxHeader
Grown(bytes) == IF Len(bytes) > MaxHeader THEN Take(bytes, MaxHeader) ELSE bytes

\* conn.sendall can fail only once the peer has closed its socket; conn_out
\* records the call either way
SendOutcomes(c) == IF peer_end[c] = "close" THEN {"sent", "BrokenPipeError"} ELSE {"sent"}

\* Return, were the cleanup not in a finally block
Return_SkipsCleanup(h) == [h EXCEPT !.pc = "done"]

\* a return inside the try block: control passes to the finally block
Return(h) == [h EXCEPT !.pc = "finally"]
Raise(h, e) == [h EXCEPT !.pc = "except", !.exc = e, !.fh = 0]

\* MissingFields with "and" for "or"
MissingFields_Both(metadata) ==
  "filename" \notin metadata.keys /\ "filesize" \notin metadata.keys

\* "if 'filename' not in metadata or 'filesize' not in metadata"
MissingFields(metadata) == "filename" \notin metadata.keys \/ "filesize" \notin metadata.keys

\* ReplyToken, were the decision ignored
ReplyToken_AlwaysAccept(accepted) == "ACCEPT"

\* the token sent once the decision is known
ReplyToken(accepted) == IF accepted THEN "ACCEPT" ELSE "REJECT"

\* RemoveIfExists, were the partial file left behind
RemoveIfExists_Never(dl, filepath) == dl

\* "if filepath and os.path.exists(filepath): os.remove(filepath)" with its
\* failure swallowed (the path may be the downloads directory itself)
RemoveIfExists(dl, filepath) ==
  IF filepath # <<>> /\ exists(dl, filepath) /\ NameOf(filepath) \in DOMAIN dl
    THEN Del(dl, NameOf(filepath)) ELSE dl

\* file_server accepts a connection and starts its handler thread, which
\* registers the transfer (handle_item_receive up to the try); connections
\* are numbered in the order the accept loop takes them
StartHandler(c) ==
  /\ handler[c].pc = "idle"
  /\ \A d \in 1..(c - 1) : handler[d].pc # "idle"
  /\ peer_end[c] # "none"
  /\ handler' = [handler EXCEPT ![c].pc = "header"]
  /\ active_transfers' = Put(active_transfers, uuid4(c), [cancel |-> FALSE, socket |-> c])
  /\ log' = Emit(log, serviceTask, {<<"Incoming connection from", addr(c)>>})

Accept(c) ==
  /\ running
  /\ StartHandler(c)
  /\ UNCHANGED <<lockVars, loop, heard, qr, sendVars, running, now, regVars, netVars, fsVars, cbVars>>

\* one pass of the header loop: while self.running: chunk = conn.recv(1024) ...
RecvHeader(c) ==
  /\ handler[c].pc = "header"
  /\ \/ /\ ~running
        /\ handler' = [handler EXCEPT ![c].pc = "parse"]
        /\ UNCHANGED wire
     \/ /\ running
        /\ RecvClosed(c)
        /\ handler' = [handler EXCEPT ![c].pc = "parse"]
        /\ UNCHANGED wire
     \/ /\ running
        /\ RecvTimeout(c)
        /\ handler' = [handler EXCEPT ![c] = Raise(@, "timed out")]
        /\ UNCHANGED wire
     \/ /\ running
        /\ \E chunk \in RecvData(c, HEADER_RECV) :
             LET bytes == handler[c].metadata_bytes \o chunk IN
             /\ wire' = [wire EXCEPT ![c] = Drop(@, Len(chunk))]
             /\ handler' =
                  IF NL \in Range(bytes)
                    THEN [handler EXCEPT ![c].metadata_bytes = SplitHead(bytes),
                                         ![c].remaining_data = SplitTail(bytes),
                                         ![c].remaining_bound = TRUE,
                                         ![c].pc = "parse"]
                    ELSE [handler EXCEPT ![c].metadata_bytes = Grown(bytes)]
  /\ UNCHANGED <<lockVars, loop, heard, qr, sendVars, running, now, regVars, active_transfers, peer_end, conn_out, fsVars,
                 log, cbVars>>

\* from "if not metadata_bytes" to confirmation_event.wait()
ParseHeader(c) ==
  LET h == handler[c]
      parsed == json_loads(h.metadata_bytes)
      metadata == parsed.obj
      peer_nickname == get(metadata, "nickname", None)
      device_type == get(metadata, "device_type", "android")
      t == recvTask(c)
  IN
  /\ h.pc = "parse"
  /\ IF h.metadata_bytes = <<>> THEN
       /\ log' = Logged(log, t, <<"No metadata received", "">>)
       /\ handler' = [handler EXCEPT ![c] = Return(@)]
       /\ UNCHANGED <<regVars, requests>>
     ELSE IF parsed.kind = "JSONDecodeError" THEN
       /\ log' = Logged(log, t, <<"Invalid JSON metadata", "">>)
       /\ handler' = [handler EXCEPT ![c] = Return(@)]
       /\ UNCHANGED <<regVars, requests>>
     ELSE IF parsed.kind = "UnicodeDecodeError" THEN
       /\ handler' = [handler EXCEPT ![c] = Raise(@, "UnicodeDecodeError")]
       /\ UNCHANGED <<regVars, requests, log>>
     ELSE IF parsed.kind = "scalar" THEN
       \* metadata.get on a value that is no dict
       /\ log' = Logged(log, t, <<"Received metadata", "">>)
       /\ handler' = [handler EXCEPT ![c] = Raise(@, "AttributeError")]
       /\ UNCHANGED <<regVars, requests>>
     ELSE IF get(metadata, "type", None) = "qr_handshake" THEN
       IF peer_nickname \notin {None, ""} THEN
         /\ peers' = Put(peers, peer_nickname, PairingEntry(addr(c), now, device_type))
         /\ upserted' = Put(upserted, peer_nickname, addr(c))
         /\ log' = [log EXCEPT ![t] = @ \cup {<<"Received metadata", "">>,
                                             <<"Detected QR handshake", "">>,
                                             <<"QR Handshake: Added peer", peer_nickname>>}]
         /\ handler' = [handler EXCEPT ![c].metadata = metadata, ![c].pc = "qr_reply"]
         /\ UNCHANGED requests
       ELSE
         /\ log' = [log EXCEPT ![t] = @ \cup {<<"Received metadata", "">>,
                                             <<"Detected QR handshake", "">>}]
         /\ handler' = [handler EXCEPT ![c] = Return([@ EXCEPT !.metadata = metadata])]
         /\ UNCHANGED <<regVars, requests>>
     ELSE IF MissingFields(metadata) THEN
       /\ log' = [log EXCEPT ![t] = @ \cup {<<"Received metadata", "">>,
                                           <<"Missing required fields", "">>}]
       /\ handler' = [handler EXCEPT ![c] = Return([@ EXCEPT !.metadata = metadata])]
       /\ UNCHANGED <<regVars, requests>>
     ELSE
       /\ log' = Logged(log, t, <<"Received metadata", "">>)
       /\ requests' = requests \cup {c}
       /\ handler' = [handler EXCEPT ![c].metadata = metadata, ![c].pc = "await"]
       /\ UNCHANGED regVars
  /\ UNCHANGED <<lockVars, loop, heard, qr, sendVars, running, now, active_transfers, netVars, fsVars, receive_active,
                 receive_progress>>

\* conn.sendall of the qr_handshake_response, then return
QRReply(c) ==
  /\ handler[c].pc = "qr_reply"
  /\ \E out \in SendOutcomes(c) :
       /\ conn_out' = [conn_out EXCEPT ![c] = Append(@, "qr_handshake_response")]
       /\ handler' = [handler EXCEPT ![c] = IF out = "sent" THEN Return(@) ELSE Raise(@, out)]
  /\ UNCHANGED <<lockVars, loop, heard, qr, sendVars, running, now, regVars, active_transfers, wire, peer_end, fsVars, log,
                 cbVars>>

\* the decision collaborator resolves a request: it sets result_container['accepted']
\* and then the confirmation event
Decide(c) ==
  /\ handler[c].pc = "await"
  /\ \E accepted \in BOOLEAN :
       handler' = [handler EXCEPT ![c].accepted = accepted, ![c].pc = "reply"]
  /\ UNCHANGED <<lockVars, loop, heard, qr, sendVars, running, now, regVars, active_transfers, netVars, fsVars, log, cbVars>>

\* after confirmation_event.wait(): REJECT and return, or ACCEPT
SendReply(c) ==
  LET token == ReplyToken(handler[c].accepted) IN
  /\ handler[c].pc = "reply"
  /\ \E out \in SendOutcomes(c) :
       /\ conn_out' = [conn_out EXCEPT ![c] = Append(@, token)]
       /\ handler' = [handler EXCEPT ![c] =
                       IF out # "sent" THEN Raise(@, out)
                       ELSE IF handler[c].accepted THEN [@ EXCEPT !.pc = "open"]
                       ELSE Return(@)]
  /\ UNCHANGED <<lockVars, loop, heard, qr, sendVars, running, now, regVars, active_transfers, wire, peer_end, fsVars, log,
                 cbVars>>

\* DestinationName, were the declared filename used as it is
DestinationName_AsDeclared(declared) == declared

\* filename = os.path.basename(metadata['filename'])
DestinationName(declared) == basename(declared)

\* receive_active_callback(True), the destination path, open(filepath, 'wb')
\* and the write of remaining_data
OpenFile(c) ==
  LET h == handler[c]
      filename == DestinationName(h.metadata.filename)
      filesize == h.metadata.filesize
      item_type == get(h.metadata, "type", "file")
      filepath == join(DOWNLOAD_DIR, filename)
      entry == NameOf(filepath)
      inode == IF entry \in DOMAIN downloads THEN downloads[entry] ELSE c
      h1 == [h EXCEPT !.filesize = filesize, !.item_type = item_type,
                      !.filepath = filepath]
  IN
  /\ h.pc = "open"
  /\ receive_active' = [receive_active EXCEPT ![c] = Append(@, TRUE)]
  /\ IF filename \in {<<>>, <<"..">>} THEN
       \* the path is the downloads directory itself, or its parent
       /\ handler' = [handler EXCEPT ![c] = Raise(h1, "IsADirectoryError")]
       /\ UNCHANGED fsVars
     ELSE IF ~h.remaining_bound THEN
       \* remaining_data was never assigned: the header loop ended without a newline
       /\ downloads' = Put(downloads, entry, inode)
       /\ files' = [files EXCEPT ![inode] = <<>>]
       /\ created' = created \cup {c}
       /\ handler' = [handler EXCEPT ![c] = Raise(h1, "UnboundLocalError")]
     ELSE
       /\ downloads' = Put(downloads, entry, inode)
       /\ files' = [files EXCEPT ![inode] = h.remaining_data]
       /\ created' = created \cup {c}
       /\ handler' = [handler EXCEPT ![c] =
            [h1 EXCEPT !.received_bytes = Len(h.remaining_data),
                       !.written = Len(h.remaining_data),
                       !.fh = IF Len(h.remaining_data) < filesize THEN inode ELSE 0,
                       !.pc = IF Len(h.remaining_data) < filesize THEN "stream" ELSE "check"]]
  /\ UNCHANGED <<lockVars, loop, heard, qr, sendVars, running, now, regVars, active_transfers, netVars, log, requests,
                 receive_progress>>

\* one pass of "while received_bytes < filesize"; the rate-limited progress
\* notification fires or not, depending on the wall clock
RecvPayload(c) ==
  LET h == handler[c]
      bytes_to_read == Min(BUFFER_SIZE, h.filesize - h.received_bytes)
  IN
  /\ h.pc = "stream"
  /\ \/ /\ RecvClosed(c)
        /\ handler' = [handler EXCEPT ![c].pc = "check", ![c].fh = 0]
        /\ UNCHANGED <<wire, files, receive_progress>>
     \/ /\ RecvTimeout(c)
        /\ handler' = [handler EXCEPT ![c] = Raise(@, "timed out")]
        /\ UNCHANGED <<wire, files, receive_progress>>
     \/ \E bytes_read \in RecvData(c, bytes_to_read), notify \in BOOLEAN :
          LET received == h.received_bytes + Len(bytes_read) IN
          /\ wire' = [wire EXCEPT ![c] = Drop(@, Len(bytes_read))]
          /\ files' = [files EXCEPT ![h.fh] = WriteAt(@, h.received_bytes, bytes_read)]
          /\ receive_progress' =
               IF notify
                 THEN [receive_progress EXCEPT ![c] =
                         @ \cup {[num |-> received, den |-> h.filesize, label |-> "MB"]}]
                 ELSE receive_progress
          /\ handler' = [handler EXCEPT ![c].received_bytes = received,
                                        ![c].written = @ + Len(bytes_read),
                                        ![c].fh = IF received < h.filesize THEN @ ELSE 0,
                                        ![c].pc = IF received < h.filesize
                                                    THEN "stream" ELSE "check"]
  /\ UNCHANGED <<lockVars, loop, heard, qr, sendVars, running, now, regVars, active_transfers, peer_end, conn_out, downloads,
                 created, log, requests, receive_active>>

\* IsDirectory, were a received archive treated like a plain file
IsDirectory_Never(item_type) == FALSE

\* "if item_type == 'directory'": unpack, then remove the archive
IsDirectory(item_type) == item_type = "directory"

\* "if received_bytes == filesize: ... else: raise IOError"
CheckComplete(c) ==
  LET h == handler[c]
      t == recvTask(c)
  IN
  /\ h.pc = "check"
  /\ IF h.received_bytes = h.filesize THEN
       /\ receive_progress' = [receive_progress EXCEPT ![c] =
            @ \cup {[num |-> 1, den |-> 1, label |-> "Completed!"]}]
       /\ handler' = [handler EXCEPT ![c] = Return(@)]
       /\ IF IsDirectory(h.item_type)
            THEN \E unpacked \in BOOLEAN :
                   /\ log' = [log EXCEPT ![t] = @ \cup
                        {<<"received successfully.", "">>,
                         IF unpacked THEN <<"unpacked.", "">>
                                     ELSE <<"Error unpacking folder", "">>}]
                   /\ downloads' = RemoveIfExists(downloads, h.filepath)
            ELSE /\ log' = Logged(log, t, <<"received successfully.", "">>)
                 /\ UNCHANGED downloads
     ELSE
       /\ handler' = [handler EXCEPT ![c] = Raise(@, "File transfer incomplete.")]
       /\ UNCHANGED <<receive_progress, log, downloads>>
  /\ UNCHANGED <<lockVars, loop, heard, qr, sendVars, running, now, regVars, active_transfers, netVars, files, created,
                 requests, receive_active>>

\* "except Exception as e": log, and remove the destination if it exists
Except(c) ==
  LET h == handler[c] IN
  /\ h.pc = "except"
  /\ log' = Logged(log, recvTask(c), <<"Receive failed", h.exc>>)
  /\ downloads' = RemoveIfExists(downloads, h.filepath)
  /\ handler' = [handler EXCEPT ![c].pc = "finally"]
  /\ UNCHANGED <<lockVars, loop, heard, qr, sendVars, running, now, regVars, active_transfers, netVars, files, created, cbVars>>

\* "finally": drop the ActiveTransfer entry, receive_active_callback(False)
Finally(c) ==
  /\ handler[c].pc = "finally"
  /\ active_transfers' = IF uuid4(c) \in DOMAIN active_transfers
                           THEN Del(active_transfers, uuid4(c)) ELSE active_transfers
  /\ receive_active' = [receive_active EXCEPT ![c] = Append(@, FALSE)]
  /\ handler' = [handler EXCEPT ![c].pc = "done"]
  /\ UNCHANGED <<lockVars, loop, heard, qr, sendVars, running, now, regVars, netVars, fsVars, log, requests, receive_progress>>

stop_services ==
  /\ running
  /\ log' = Emit(log, serviceTask, {<<"Shutting down...">>})
  /\ running' = FALSE
  /\ UNCHANGED <<lockVars, loop, heard, qr, sendVars, now, regVars, active_transfers, handler, netVars, fsVars, cbVars>>

(* ======================================================================= *)
(* Inputs: what a remote client sends on a connection to the transfer port *)
(* ======================================================================= *)
PayloadBytes == {"a", NL}
RECURSIVE SeqsUpTo(_, _)
SeqsUpTo(S, n) ==
  IF n = 0 THEN {<<>>}
  ELSE LET shorter == SeqsUpTo(S, n - 1)
       IN  shorter \cup {Append(q, x) : q \in {r \in shorter : Len(r) = n - 1}, x \in S}
Payloads == SeqsUpTo(PayloadBytes, MaxPayload)

RequestHeaders ==
  {<<"{", "fn=a.txt", SizeTok(n), "sn=bob", "}">> : n \in 0..MaxSize}
  \cup {<<"{", "fn=a.txt", SizeTok(n), "ty=directory", "}">> : n \in 0..MaxSize}
  \cup {<<"{", "fn=../a.txt", SizeTok(n), "ty=file", "}">> : n \in 0..MaxSize}
  \cup {<<"{", "fn=d/", "fs=1", "}">>, <<"{", "fn=..", "fs=1", "}">>}
QRHeaders ==
  {<<"{", "ty=qr_handshake", "nk=bob", "}">>,
   <<"{", "ty=qr_handshake", "nk=amy", "dt=desktop", "}">>,
   <<"{", "nk=me", "ty=qr_handshake", "fn=a.txt", "fs=1", "}">>,
   <<"{", "ty=qr_handshake", "nk=", "}">>,
   <<"{", "ty=qr_handshake", "}">>}
BadHeaders ==
  {<<"{", "fn=a.txt", "}">>, <<"{", "fs=1", "}">>, <<"{", "}">>,
   <<"{", "fn=a.txt", "fs=1">>, <<"x">>, <<"5">>, <<"\\xff">>, <<SP>>, <<>>}

Prefixes(S) == UNION {{Take(s, k) : k \in 0..Len(s)} : s \in S}
\* a client sends a header line and payload bytes, and may stop anywhere
Streams ==
  Prefixes({hd \o <<NL>> \o pl : hd \in RequestHeaders \cup BadHeaders, pl \in Payloads}
           \cup {hd \o <<NL>> : hd \in QRHeaders})
\* the clients used when several connections run at once: a complete file, a
\* short one, a pairing handshake, a request without size, garbage, and nothing
FewClients ==
  {<<<<"{", "fn=a.txt", "fs=1", "}", NL, "a">>, "silent">>,
   <<<<"{", "fn=a.txt", "fs=2", "}", NL, "a">>, "close">>,
   <<<<"{", "ty=qr_handshake", "nk=bob", "}", NL>>, "silent">>,
   <<<<"{", "fn=a.txt", "}", NL>>, "silent">>,
   <<<<"x", NL>>, "close">>,
   <<<<>>, "close">>}

InitSender ==
  /\ send = InitSend
  /\ s_out = <<>>
  /\ temp_zip = FALSE
  /\ send_active = <<>>
  /\ send_progress = {}

\* no outbound transfer is made
NoSender ==
  /\ InitSender
  /\ share = <<>>
  /\ s_wire = <<>>
  /\ s_end = "silent"

InitState ==
  /\ running = TRUE
  /\ now = 0
  /\ active_transfers = <<>>
  /\ handler = [c \in Conns |-> InitHandler]
  /\ conn_out = [c \in Conns |-> <<>>]
  /\ downloads = <<>>
  /\ files = [c \in Conns |-> <<>>]
  /\ created = {}
  /\ log = [t \in Tasks |-> {}]
  /\ requests = {}
  /\ receive_active = [c \in Conns |-> <<>>]
  /\ receive_progress = [c \in Conns |-> {}]
  /\ qr = [q \in QRConns |-> InitQR]
  /\ heard = <<>>
  /\ peers_lock = {}
  /\ transfer_lock = {}
  /\ thread = [t \in Threads |-> InitThread]
  /\ last = NoStatement

\* the state once start_services has run and every thread is in its loop
InitCore ==
  /\ InitState
  /\ loop = [l \in Loops |-> "check"]

InitBackend ==
  /\ InitCore
  /\ NoSender
  /\ peers = <<>>
  /\ upserted = <<>>

\* one inbound connection, any client
InitRecv ==
  /\ InitBackend
  /\ \E s \in Streams, e \in {"close", "silent"} :
       /\ wire = [c \in Conns |-> IF c = 1 THEN s ELSE <<>>]
       /\ peer_end = [c \in Conns |-> IF c = 1 THEN e ELSE "none"]

\* several inbound connections at once
InitConc ==
  /\ InitBackend
  /\ \E client \in [Conns -> FewClients] :
       /\ wire = [c \in Conns |-> client[c][1]]
       /\ peer_end = [c \in Conns |-> client[c][2]]

Receive ==
  \E c \in Conns :
    \/ Accept(c)
    \/ RecvHeader(c)
    \/ ParseHeader(c)
    \/ QRReply(c)
    \/ Decide(c)
    \/ SendReply(c)
    \/ OpenFile(c)
    \/ RecvPayload(c)
    \/ CheckComplete(c)
    \/ Except(c)
    \/ Finally(c)

NextRecv == Receive \/ stop_services

SpecRecv == InitRecv /\ [][NextRecv]_vars
SpecConc == InitConc /\ [][Receive]_vars

(* ======================================================================= *)
(* Peer Registry, Discovery Service and QR Pairing Service                 *)
(* ======================================================================= *)

\* the clock advances
Tick ==
  /\ now + TickStep <= MaxTime
  /\ now' = now + TickStep
  /\ UNCHANGED <<lockVars, loop, heard, qr, sendVars, running, regVars, active_transfers, handler, netVars, fsVars, log, cbVars>>

\* DiscoveryEntry, were the flag reset by every datagram
DiscoveryEntry_Unpins(p, peer_nickname, peer_ip, t, device_type) ==
  Entry(peer_ip, t, device_type, FALSE)

\* DiscoveryEntry, were the address of a known peer kept (first write wins)
DiscoveryEntry_KeepsAddress(p, peer_nickname, peer_ip, t, device_type) ==
  Entry(IF peer_nickname \in DOMAIN p THEN p[peer_nickname].ip ELSE peer_ip, t, device_type,
        IF peer_nickname \in DOMAIN p THEN p[peer_nickname].qr_connected ELSE FALSE)

\* DiscoveryEntry, were every announced peer pinned
DiscoveryEntry_Pins(p, peer_nickname, peer_ip, t, device_type) ==
  Entry(peer_ip, t, device_type, TRUE)

\* the entry listen_for_peers writes for a datagram: address, last-seen and
\* device class are the datagram's, qr_connected is kept from the old entry
DiscoveryEntry(p, peer_nickname, peer_ip, t, device_type) ==
  Entry(peer_ip, t, device_type,
        IF peer_nickname \in DOMAIN p THEN p[peer_nickname].qr_connected ELSE FALSE)

\* the datagrams on the broadcast domain
Datagrams ==
  {<<"{", "mg=ok", "nk=bob", "ip=10.0.0.1", "dt=desktop", "}">>,
   <<"{", "mg=ok", "nk=bob", "ip=10.0.0.2", "}">>,
   <<"{", "mg=ok", "nk=amy", "ip=10.0.0.2", "dt=android", "}">>,
   <<"{", "mg=ok", "nk=me", "ip=10.0.0.9", "dt=desktop", "}">>,
   <<"{", "mg=bad", "nk=bob", "ip=10.0.0.2", "}">>,
   <<"{", "mg=ok", "nk=bob">>}

\* MagicOK, were a datagram without magic field let through
MagicOK_MissingPasses(message) == get(message, "magic", BROADCAST_MAGIC) = BROADCAST_MAGIC

\* message.get("magic") == BROADCAST_MAGIC
MagicOK(message) == get(message, "magic", None) = BROADCAST_MAGIC

\* the body of one pass of the listen loop for the datagram data
Datagram(data) ==
  LET parsed == json_loads(data)
      message == parsed.obj
      peer_nickname == get(message, "nickname", None)
      peer_ip == get(message, "ip", None)
      device_type == get(message, "device_type", "unknown")
  IN
  IF parsed.kind = "JSONDecodeError" THEN
    /\ log' = Emit(log, serviceTask, {})
    /\ UNCHANGED regVars
  ELSE IF parsed.kind = "UnicodeDecodeError" THEN
    /\ log' = Emit(log, serviceTask,
                   IF running THEN {<<"Peer listen error", "UnicodeDecodeError">>} ELSE {})
    /\ UNCHANGED regVars
  ELSE IF parsed.kind = "scalar" THEN
    /\ log' = Emit(log, serviceTask,
                   IF running THEN {<<"Peer listen error", "AttributeError">>} ELSE {})
    /\ UNCHANGED regVars
  ELSE IF MagicOK(message) /\ peer_nickname # nickname THEN
    /\ peers' = Put(peers, peer_nickname,
                    DiscoveryEntry(peers, peer_nickname, peer_ip, now, device_type))
    /\ upserted' = Put(upserted, peer_nickname, peer_ip)
    /\ log' = Emit(log, serviceTask,
                    IF peer_nickname \notin DOMAIN peers
                      THEN {<<"Discovered peer", peer_nickname>>} ELSE {})
  ELSE
    /\ log' = Emit(log, serviceTask, {})
    /\ UNCHANGED regVars

\* one datagram received by listen_for_peers
Listen(datagrams) ==
  /\ running
  /\ \E data \in datagrams : Datagram(data)
  /\ UNCHANGED <<lockVars, loop, qr, sendVars, running, now, active_transfers, handler, netVars, fsVars, cbVars>>

listen_for_peers == Listen(Datagrams) /\ UNCHANGED heard

\* StalePeers, were the pinned flag not consulted
StalePeers_IgnoresPin(p, current_time) ==
  {n \in DOMAIN p : current_time - p[n].last_seen > PEER_TIMEOUT}

\* the nicknames one sweep deletes
StalePeers(p, current_time) ==
  {n \in DOMAIN p : current_time - p[n].last_seen > PEER_TIMEOUT /\ ~p[n].qr_connected}

\* one pass of the eviction sweep
Sweep ==
  LET stale_peers == StalePeers(peers, now) IN
  /\ peers' = [n \in DOMAIN peers \ stale_peers |-> peers[n]]
  /\ upserted' = [n \in DOMAIN upserted \ stale_peers |-> upserted[n]]
  /\ log' = Emit(log, serviceTask, {<<"timed out", n>> : n \in stale_peers})

cleanup_stale_peers ==
  /\ running
  /\ Sweep
  /\ UNCHANGED <<lockVars, loop, heard, qr, sendVars, running, now, active_transfers, handler, netVars, fsVars, cbVars>>

\* get_peer_dict()
get_peer_dict == [name \in DOMAIN peers |-> peers[name].ip]

\* what a client of the pairing port sends
QRStreams ==
  {<<"{", "nk=bob", "ip=10.0.0.2", "dt=desktop", "}", NL>>,
   <<"{", "nk=bob", "}", NL, "x">>,
   <<"{", "nk=bob", "}">>,
   <<"{", "ip=10.0.0.2", "}", NL>>}

\* what the read loop of handle_qr_connection can end with: the bytes up to
\* the read that brought the newline, or all bytes when the peer closed
QRData(s, end) ==
  IF NL \in Range(s) THEN {Take(s, k) : k \in FirstNL(s)..Len(s)}
  ELSE IF end = "close" THEN {s}
  ELSE {}

\* one connection to the pairing port, handled by handle_qr_connection
QRConnection(streams) ==
  /\ running
  /\ \E s \in streams, end \in {"close", "silent"}, a \in {"10.0.0.1"} :
     \E sent \in IF end = "close" THEN {"sent", "BrokenPipeError"} ELSE {"sent"} :
       LET t == serviceTask IN
       IF sent # "sent" THEN
         /\ log' = Emit(log, t, {<<"QR connection handler error", sent>>})
         /\ UNCHANGED regVars
       ELSE IF QRData(s, end) = {} THEN
         /\ log' = Emit(log, t, {<<"Sent our info", "">>,
                                             <<"QR connection timed out", "">>})
         /\ UNCHANGED regVars
       ELSE \E data \in QRData(s, end) :
         LET parsed == json_loads(strip(data))
             peer_info == parsed.obj
             peer_nickname == get(peer_info, "nickname", None)
             peer_ip == get(peer_info, "ip", a)
             device_type == get(peer_info, "device_type", "android")
         IN
         IF data = <<>> \/ Len(data) >= QR_MAX THEN
           /\ log' = Emit(log, t, {<<"Sent our info", "">>})
           /\ UNCHANGED regVars
         ELSE IF parsed.kind = "JSONDecodeError" THEN
           /\ log' = Emit(log, t, {<<"Sent our info", "">>, <<"Invalid JSON", "">>})
           /\ UNCHANGED regVars
         ELSE IF parsed.kind = "UnicodeDecodeError" THEN
           /\ log' = Emit(log, t, {<<"Sent our info", "">>,
                         <<"QR connection handler error", "UnicodeDecodeError">>})
           /\ UNCHANGED regVars
         ELSE IF parsed.kind = "scalar" THEN
           /\ log' = Emit(log, t, {<<"Sent our info", "">>, <<"Received peer info", "">>,
                         <<"QR connection handler error", "AttributeError">>})
           /\ UNCHANGED regVars
         ELSE IF peer_nickname \notin {None, ""} THEN
           /\ peers' = Put(peers, peer_nickname, PairingEntry(peer_ip, now, device_type))
           /\ upserted' = Put(upserted, peer_nickname, peer_ip)
           /\ log' = Emit(log, t, {<<"Sent our info", "">>, <<"Received peer info", "">>,
                         <<"QR Connect: Added peer", peer_nickname>>})
         ELSE
           /\ log' = Emit(log, t, {<<"Sent our info", "">>, <<"Received peer info", "">>})
           /\ UNCHANGED regVars
  /\ UNCHANGED <<lockVars, loop, heard, qr, sendVars, running, now, active_transfers, handler, netVars, fsVars, cbVars>>

handle_qr_connection == QRConnection(QRStreams)

\* the registry under discovery, both pairing paths and the sweep; the one
\* connection to the transfer port carries a pairing handshake
PairingClients ==
  {<<<<"{", "ty=qr_handshake", "nk=bob", "}", NL>>, "silent">>,
   <<<<"{", "ty=qr_handshake", "nk=bob", "dt=desktop", "}", NL>>, "silent">>}

InitReg ==
  /\ InitBackend
  /\ \E client \in PairingClients :
       /\ wire = [c \in Conns |-> IF c = 1 THEN client[1] ELSE <<>>]
       /\ peer_end = [c \in Conns |-> IF c = 1 THEN client[2] ELSE "none"]

PairingOnTransferPort ==
  \E c \in Conns :
    \/ Accept(c)
    \/ RecvHeader(c)
    \/ ParseHeader(c)
    \/ QRReply(c)
    \/ Finally(c)

NextReg ==
  \/ Tick
  \/ listen_for_peers
  \/ cleanup_stale_peers
  \/ handle_qr_connection
  \/ PairingOnTransferPort

SpecReg == InitReg /\ [][NextReg]_vars

(* ---------------- the pairing listener, step by step ---------------- *)

\* json.dumps(our_info) + '\n'
our_info == <<"{", "nk=me", "ip=local", "dt=desktop", "st=ready", "}", NL>>

\* what a peer of the pairing port sends, and what it does after its last byte
QRPeers ==
  {<<<<"{", "nk=bob", "ip=10.0.0.2", "}", NL>>, "silent">>,
   <<<<"{", "nk=amy", "dt=desktop", "}", NL>>, "close">>,
   <<<<"{", "nk=bob", "}">>, "close">>,
   <<<<"{", "nk=bob", "}">>, "silent">>,
   <<<<>>, "close">>,
   <<<<>>, "silent">>,
   <<<<"{", "nk=bob", NL>>, "silent">>,
   <<<<"{", "nk=", "}", NL>>, "silent">>,
   <<<<"{", "ip=10.0.0.2", "}", NL>>, "close">>,
   <<<<"5", NL>>, "silent">>}

\* qr_connect_server: one pass of the accept loop that accepts a connection
\* and starts its handle_qr_connection thread
StartQR(q, clients) ==
  /\ qr[q].pc = "idle"
  /\ \A p \in QRConns : p < q => qr[p].pc # "idle"
  /\ \E peer \in clients :
       qr' = [qr EXCEPT ![q] = [InitQR EXCEPT !.pc = "send", !.wire = peer[1],
                                              !.peer_end = peer[2]]]
  /\ log' = Emit(log, serviceTask, {<<"QR connection received", addr(q)>>})

QRAccept(q) ==
  /\ running
  /\ StartQR(q, QRPeers)
  /\ UNCHANGED <<lockVars, loop, heard, sendVars, running, now, regVars, active_transfers, handler, netVars, fsVars, cbVars>>

\* conn.sendall(our_info): a peer that has closed may reset the connection
QRSend(q) ==
  /\ qr[q].pc = "send"
  /\ \E sent \in IF qr[q].peer_end = "close"
                  THEN {"sent", "BrokenPipeError"} ELSE {"sent"} :
       IF sent = "sent" THEN
         /\ qr' = [qr EXCEPT ![q].pc = "recv", ![q].out = @ \o our_info]
         /\ log' = Emit(log, serviceTask, {<<"Sent our info", addr(q)>>})
       ELSE
         /\ qr' = [qr EXCEPT ![q].pc = "done"]
         /\ log' = Emit(log, serviceTask, {<<"QR connection handler error", sent>>})
  /\ UNCHANGED <<lockVars, loop, heard, sendVars, running, now, regVars, active_transfers, handler, netVars, fsVars, cbVars>>

\* one pass of the read loop: conn.recv(1024) returns some of the pending
\* bytes, nothing once the peer has closed, or times out
QRRecv(q) ==
  LET c == qr[q] IN
  /\ c.pc = "recv"
  /\ IF NL \in Range(c.data) \/ Len(c.data) >= QR_MAX THEN
       /\ qr' = [qr EXCEPT ![q].pc = "parse"]
       /\ UNCHANGED log
     ELSE IF c.wire # <<>> THEN
       /\ \E k \in 1..Min(Len(c.wire), QR_RECV) :
            qr' = [qr EXCEPT ![q].data = @ \o Take(c.wire, k), ![q].wire = Drop(@, k)]
       /\ UNCHANGED log
     ELSE IF c.peer_end = "close" THEN
       /\ qr' = [qr EXCEPT ![q].pc = "parse"]
       /\ UNCHANGED log
     ELSE
       /\ qr' = [qr EXCEPT ![q].pc = "done"]
       /\ log' = Emit(log, serviceTask, {<<"QR connection timed out", addr(q)>>})
  /\ UNCHANGED <<lockVars, loop, heard, sendVars, running, now, regVars, active_transfers, handler, netVars, fsVars, cbVars>>

\* Truthy, were only a missing value false
Truthy_NotNone(v) == v # None

\* the truth value of a string or None
Truthy(v) == v \notin {None, ""}

\* after the loop: parse what was read and write the registry
QRParse(q) ==
  LET data == qr[q].data
      parsed == json_loads(strip(data))
      peer_info == parsed.obj
      peer_nickname == get(peer_info, "nickname", None)
      peer_ip == get(peer_info, "ip", addr(q))
      device_type == get(peer_info, "device_type", "android")
  IN
  /\ qr[q].pc = "parse"
  /\ qr' = [qr EXCEPT ![q].pc = "done"]
  /\ IF data = <<>> THEN
       /\ UNCHANGED <<regVars, log>>
     ELSE IF parsed.kind = "JSONDecodeError" THEN
       /\ log' = Emit(log, serviceTask, {<<"Invalid JSON", addr(q)>>})
       /\ UNCHANGED regVars
     ELSE IF parsed.kind = "UnicodeDecodeError" THEN
       /\ log' = Emit(log, serviceTask, {<<"QR connection handler error", "UnicodeDecodeError">>})
       /\ UNCHANGED regVars
     ELSE IF parsed.kind = "scalar" THEN
       /\ log' = Emit(log, serviceTask, {<<"Received peer info", "">>,
                                       <<"QR connection handler error", "AttributeError">>})
       /\ UNCHANGED regVars
     ELSE IF Truthy(peer_nickname) THEN
       /\ peers' = Put(peers, peer_nickname, PairingEntry(peer_ip, now, device_type))
       /\ upserted' = Put(upserted, peer_nickname, peer_ip)
       /\ log' = Emit(log, serviceTask, {<<"Received peer info", "">>,
                                       <<"QR Connect: Added peer", peer_nickname>>})
     ELSE
       /\ log' = Emit(log, serviceTask, {<<"Received peer info", "">>})
       /\ UNCHANGED regVars
  /\ UNCHANGED <<lockVars, loop, heard, sendVars, running, now, active_transfers, handler, netVars, fsVars, cbVars>>

qr_connect_server ==
  \E q \in QRConns :
    \/ QRAccept(q)
    \/ QRSend(q)
    \/ QRRecv(q)
    \/ QRParse(q)

InitQRServer ==
  /\ InitBackend
  /\ wire = [c \in Conns |-> <<>>]
  /\ peer_end = [c \in Conns |-> "none"]

NextQR ==
  \/ qr_connect_server
  \/ Tick
  \/ cleanup_stale_peers
  \/ stop_services

SpecQR == InitQRServer /\ [][NextQR]_vars

(* ---------------- discovery, with the datagrams recorded ---------------- *)

\* the broadcast domain also carries datagrams without magic field
Announcements ==
  Datagrams \cup {<<"{", "nk=bob", "ip=10.0.0.2", "}">>,
                  <<"{", "mg=bad", "nk=amy", "ip=10.0.0.1", "dt=android", "}">>,
                  <<"\\xff">>,
                  <<"5">>}

\* one pass of the listen loop; the datagram it received is recorded
recvfrom ==
  \E data \in Announcements :
    /\ Listen({data})
    /\ heard' = data

NextDiscovery ==
  \/ recvfrom
  \/ handle_qr_connection
  \/ Tick
  \/ cleanup_stale_peers
  \/ stop_services

SpecDiscovery == InitQRServer /\ [][NextDiscovery]_vars

\* announcements with the right magic that lack a member, among complete ones
Incomplete ==
  {<<"{", "mg=ok", "ip=10.0.0.2", "}">>,
   <<"{", "mg=ok", "nk=amy", "}">>,
   <<"{", "mg=ok", "nk=bob", "ip=10.0.0.1", "dt=desktop", "}">>,
   <<"{", "mg=ok", "nk=bob", "ip=10.0.0.2", "}">>}

recvfrom_incomplete ==
  \E data \in Incomplete :
    /\ Listen({data})
    /\ heard' = data

NextIncomplete ==
  \/ recvfrom_incomplete
  \/ Tick
  \/ cleanup_stale_peers

SpecIncomplete == InitQRServer /\ [][NextIncomplete]_vars

(* ---------------- the service threads and their loops ---------------- *)

\* the line a listener logs when its socket is bound and listening
ListeningLine(l) ==
  CASE l = "listen_for_peers" -> <<"Listening for peers", "">>
    [] l = "file_server" -> <<"File server listening", "">>
    [] l = "qr_connect_server" -> <<"QR Connect server listening", "">>

\* the line the outer except clause of a listener logs
StartupFailureLine(l) ==
  CASE l = "listen_for_peers" -> <<"Failed to start peer listener", "OSError">>
    [] l = "file_server" -> <<"File server error", "OSError">>
    [] l = "qr_connect_server" -> <<"QR Connect server error", "OSError">>

\* a listener thread runs up to its loop: it creates and binds its socket,
\* which may fail
StartLoop(l) ==
  /\ l \in Listeners
  /\ loop[l] = "start"
  /\ \E bound \in BOOLEAN :
       /\ loop' = [loop EXCEPT ![l] = IF bound THEN "check" ELSE "failed"]
       /\ log' = Emit(log, serviceTask,
                      {IF bound THEN ListeningLine(l) ELSE StartupFailureLine(l)})
  /\ UNCHANGED <<lockVars, heard, qr, sendVars, running, now, regVars, active_transfers, handler, netVars,
                 fsVars, cbVars>>

\* WhileRunning, were the flag not looked at
WhileRunning_Forever(flag) == "body"

\* "while self.running": enter the next pass, or leave the loop
WhileRunning(flag) == IF flag THEN "body" ELSE "exited"

CheckFlag(l) ==
  /\ loop[l] = "check"
  /\ loop' = [loop EXCEPT ![l] = WhileRunning(running)]
  /\ UNCHANGED <<lockVars, heard, qr, sendVars, running, now, regVars, active_transfers, handler, netVars,
                 fsVars, log, cbVars>>

\* Caught, were an exception of a pass to end the loop
Caught_Fatal(e) == "exited"

\* an exception raised in a pass is caught inside the loop, which goes on
Caught(e) == "check"

\* what "except Exception as e: if self.running: self.log(...)" logs
LoggedIfRunning(line) == IF running THEN {line} ELSE {}

\* one pass of broadcast_presence: sendto errors are swallowed, then sleep
BroadcastPass ==
  /\ loop["broadcast_presence"] = "body"
  /\ loop' = [loop EXCEPT !["broadcast_presence"] = "check"]
  /\ UNCHANGED <<lockVars, heard, qr, sendVars, running, now, regVars, active_transfers, handler, netVars,
                 fsVars, log, cbVars>>

\* one pass of cleanup_stale_peers: sleep, then the sweep
SweepPass ==
  /\ loop["cleanup_stale_peers"] = "body"
  /\ loop' = [loop EXCEPT !["cleanup_stale_peers"] = "check"]
  /\ Sweep
  /\ UNCHANGED <<lockVars, heard, qr, sendVars, running, now, active_transfers, handler, netVars,
                 fsVars, cbVars>>

\* one pass of the loop of listen_for_peers: recvfrom times out, or a
\* datagram is handled, which may raise
ListenPass(datagrams) ==
  /\ loop["listen_for_peers"] = "body"
  /\ \/ /\ loop' = [loop EXCEPT !["listen_for_peers"] = "check"]
        /\ UNCHANGED <<regVars, log>>
     \/ \E data \in datagrams :
          /\ Datagram(data)
          /\ loop' = [loop EXCEPT !["listen_for_peers"] =
                        IF json_loads(data).kind \in {"UnicodeDecodeError", "scalar", "JSONDecodeError"}
                          THEN Caught(json_loads(data).kind) ELSE "check"]
  /\ UNCHANGED <<lockVars, heard, qr, sendVars, running, now, active_transfers, handler, netVars, fsVars,
                 cbVars>>

\* one pass of the loop of file_server: accept times out, returns a
\* connection whose handler thread is started, or raises
ServePass ==
  /\ loop["file_server"] = "body"
  /\ \/ /\ loop' = [loop EXCEPT !["file_server"] = "check"]
        /\ UNCHANGED <<handler, active_transfers, log>>
     \/ /\ \E c \in Conns : StartHandler(c)
        /\ loop' = [loop EXCEPT !["file_server"] = "check"]
     \/ /\ loop' = [loop EXCEPT !["file_server"] = Caught("OSError")]
        /\ log' = Emit(log, serviceTask, LoggedIfRunning(<<"Accept error", "OSError">>))
        /\ UNCHANGED <<handler, active_transfers>>
  /\ UNCHANGED <<lockVars, heard, qr, sendVars, running, now, regVars, netVars, fsVars, cbVars>>

\* one pass of the loop of qr_connect_server
QRServePass(clients) ==
  /\ loop["qr_connect_server"] = "body"
  /\ \/ /\ loop' = [loop EXCEPT !["qr_connect_server"] = "check"]
        /\ UNCHANGED <<qr, log>>
     \/ /\ \E q \in QRConns : StartQR(q, clients)
        /\ loop' = [loop EXCEPT !["qr_connect_server"] = "check"]
     \/ /\ loop' = [loop EXCEPT !["qr_connect_server"] = Caught("OSError")]
        /\ log' = Emit(log, serviceTask, LoggedIfRunning(<<"QR accept error", "OSError">>))
        /\ UNCHANGED qr
  /\ UNCHANGED <<lockVars, heard, sendVars, running, now, regVars, active_transfers, handler, netVars,
                 fsVars, cbVars>>

\* what arrives while the threads are watched: datagrams that parse and that
\* do not, transfer clients that connect and send nothing, a pairing peer
\* that closes at once
LoopDatagrams ==
  {<<"{", "mg=ok", "nk=bob", "ip=10.0.0.1", "dt=desktop", "}">>, <<"\\xff">>, <<"{", "mg=ok", "nk=bob">>}
LoopPeers == {<<<<>>, "close">>}

\* a handler thread of a connection that sends nothing: it times out or
\* finds the flag cleared, and ends
HandlerEnds ==
  \E c \in Conns :
    \/ RecvHeader(c)
    \/ ParseHeader(c)
    \/ Except(c)
    \/ Finally(c)

\* the three listeners from their start, and the handler threads they start
Listening ==
  \/ \E l \in Listeners : StartLoop(l)
  \/ \E l \in Listeners : CheckFlag(l)
  \/ ListenPass(LoopDatagrams)
  \/ ServePass
  \/ QRServePass(LoopPeers)

InitListeners ==
  /\ InitState
  /\ loop = [l \in Loops |-> "start"]
  /\ NoSender
  /\ peers = <<>>
  /\ upserted = <<>>
  /\ wire = [c \in Conns |-> <<>>]
  /\ peer_end = [c \in Conns |-> "silent"]

NextListeners ==
  \/ Listening
  \/ HandlerEnds
  \/ stop_services

SpecListeners == InitListeners /\ [][NextListeners]_vars

\* the five loops once start_services has started them, until they exit
Looping ==
  \/ \E l \in Loops : CheckFlag(l)
  \/ BroadcastPass
  \/ SweepPass
  \/ ListenPass(LoopDatagrams)
  \/ ServePass
  \/ QRServePass(LoopPeers)

InitShutdown ==
  /\ InitBackend
  /\ wire = [c \in Conns |-> <<>>]
  /\ peer_end = [c \in Conns |-> "silent"]

NextShutdown ==
  \/ Looping
  \/ stop_services

\* every thread is scheduled again and again, and every blocking call of a
\* pass is bounded: accept and recvfrom by the sockets' timeout of one second,
\* the broadcaster and the sweeper by their sleep
FairShutdown ==
  /\ InitShutdown
  /\ [][NextShutdown]_vars
  /\ \A l \in Loops : WF_vars(CheckFlag(l))
  /\ WF_vars(BroadcastPass)
  /\ WF_vars(SweepPass)
  /\ WF_vars(ListenPass(LoopDatagrams))
  /\ WF_vars(ServePass)
  /\ WF_vars(QRServePass(LoopPeers))

(* ======================================================================= *)
(* File Transfer Client: send_item                                         *)
(* ======================================================================= *)

\* json.dumps of the transfer request
DumpName(filename) == CHOOSE t \in DOMAIN NameMember : NameMember[t] = filename
DumpStr(key, value) == CHOOSE t \in DOMAIN StrMember : StrMember[t] = <<key, value>>
json_dumps(filename, filesize, item_type, sender) ==
  <<"{", DumpName(filename), SizeTok(filesize), DumpStr("type", item_type),
    DumpStr("sender_nickname", sender), "}">>

\* shutil.make_archive of a directory: the bytes of the archive
ArchiveBytes == <<"PK">>

\* IsAccept, were every reply but REJECT taken as consent
IsAccept_NotReject(response) == response # <<"REJECT">>

\* "if response != b'ACCEPT'" decides whether the payload is sent
IsAccept(response) == response = <<"ACCEPT">>

\* response_file.readline(): the bytes up to and including the first newline,
\* or all bytes when the peer closed before one; a singleton or no value (timeout)
Readline(bytes, end) ==
  IF NL \in Range(bytes) THEN {Take(bytes, FirstNL(bytes))}
  ELSE IF end = "close" THEN {bytes}
  ELSE {}

\* leave the try block through an except clause, which logs
SendFail(sd, l, line) ==
  /\ send' = [sd EXCEPT !.pc = "finally"]
  /\ log' = Logged(l, sendTask, line)

\* EarlyReturn, were the return inside the try block
EarlyReturn_ThroughFinally(sd) == [sd EXCEPT !.pc = "finally"]

\* "return" before the try block: the finally clause does not run
EarlyReturn(sd) == [sd EXCEPT !.pc = "done"]

\* send_item up to the connect: the lookups, the packing and the metadata
SendStart ==
  /\ send.pc = "idle"
  /\ \E peer_nickname \in {"bob", "zed"}, item_name \in {"a.txt", "d", "nope"} :
       LET peer_dict == get_peer_dict
           sd == [send EXCEPT !.peer_nickname = peer_nickname, !.item_name = item_name]
       IN
       IF peer_nickname \notin DOMAIN peer_dict THEN
         /\ send' = EarlyReturn(sd)
         /\ log' = Logged(log, sendTask, <<"Peer not found.", peer_nickname>>)
         /\ UNCHANGED temp_zip
       ELSE IF item_name \notin DOMAIN share THEN
         /\ send' = EarlyReturn([sd EXCEPT !.peer_ip = peer_dict[peer_nickname]])
         /\ log' = Logged(log, sendTask, <<"Item not found.", item_name>>)
         /\ UNCHANGED temp_zip
       ELSE IF share[item_name] = <<"directory">> THEN
         \E packed \in BOOLEAN :
           IF packed
             THEN /\ temp_zip' = TRUE
                  /\ send' = [sd EXCEPT !.pc = "connect",
                                        !.peer_ip = peer_dict[peer_nickname],
                                        !.item_type = "directory",
                                        !.filename = <<"d.zip">>,
                                        !.filesize = Len(ArchiveBytes),
                                        !.unread = ArchiveBytes]
                  /\ log' = Logged(log, sendTask, <<"Connecting to", peer_nickname>>)
             ELSE /\ SendFail([sd EXCEPT !.peer_ip = peer_dict[peer_nickname]], log,
                              <<"Send failed", "make_archive">>)
                  /\ UNCHANGED temp_zip
       ELSE
         /\ send' = [sd EXCEPT !.pc = "connect",
                               !.peer_ip = peer_dict[peer_nickname],
                               !.item_type = "file",
                               !.filename = basename(<<item_name>>),
                               !.filesize = Len(share[item_name]),
                               !.unread = share[item_name]]
         /\ log' = Logged(log, sendTask, <<"Connecting to", peer_nickname>>)
         /\ UNCHANGED temp_zip
  /\ UNCHANGED <<lockVars, loop, heard, qr, running, now, regVars, active_transfers, handler, netVars, fsVars, cbVars,
                 share, s_wire, s_end, s_out, send_active, send_progress>>

\* s.connect and the sendall of the header line
SendConnect ==
  LET header == json_dumps(send.filename, send.filesize, send.item_type, nickname) \o <<NL>> IN
  /\ send.pc = "connect"
  /\ \E outcome \in {"connected", "timeout", "ConnectionRefusedError"} :
       IF outcome = "connected" THEN
         /\ s_out' = s_out \o header
         /\ send' = [send EXCEPT !.pc = "reply", !.header = header]
         /\ UNCHANGED log
       ELSE IF outcome = "timeout" THEN
         /\ SendFail(send, log, <<"Connection timeout", "">>)
         /\ UNCHANGED s_out
       ELSE
         /\ SendFail(send, log, <<"Send failed", outcome>>)
         /\ UNCHANGED s_out
  /\ UNCHANGED <<lockVars, loop, heard, qr, running, now, regVars, active_transfers, handler, netVars, fsVars, cbVars,
                 share, s_wire, s_end, temp_zip, send_active, send_progress>>

\* the blocking read of the reply line and the test of the response
SendReadReply ==
  /\ send.pc = "reply"
  /\ IF Readline(s_wire, s_end) = {} THEN
       /\ SendFail(send, log, <<"Connection timeout", "">>)
       /\ UNCHANGED <<s_wire, send_active>>
     ELSE \E line \in Readline(s_wire, s_end) :
       LET response == strip(line)
           sd == [send EXCEPT !.line = line, !.response = response, !.reply_read = TRUE]
       IN
       /\ s_wire' = Drop(s_wire, Len(line))
       /\ IF IsAccept(response)
            THEN /\ send' = [sd EXCEPT !.pc = "stream"]
                 /\ send_active' = Append(send_active, TRUE)
                 /\ UNCHANGED log
            ELSE /\ SendFail(sd, log, <<"Transfer rejected", "">>)
                 /\ UNCHANGED send_active
  /\ UNCHANGED <<lockVars, loop, heard, qr, running, now, regVars, active_transfers, handler, netVars, fsVars, cbVars,
                 share, s_end, s_out, temp_zip, send_progress>>

\* one pass of the read-and-send loop, and what follows the loop
SendChunk ==
  LET bytes_read == Take(send.unread, Min(BUFFER_SIZE, Len(send.unread))) IN
  /\ send.pc = "stream"
  /\ IF bytes_read = <<>> THEN
       /\ send_progress' = send_progress \cup {[num |-> 1, den |-> 1, label |-> "Completed!"]}
       /\ log' = Logged(log, sendTask, <<"sent to", send.peer_nickname>>)
       /\ send' = [send EXCEPT !.pc = "finally"]
       /\ UNCHANGED s_out
     ELSE \E out \in IF s_end = "close" THEN {"sent", "BrokenPipeError"} ELSE {"sent"},
             notify \in BOOLEAN :
       /\ s_out' = s_out \o bytes_read
       /\ IF out = "sent"
            THEN /\ send' = [send EXCEPT !.unread = Drop(@, Len(bytes_read)),
                                         !.sent_bytes = @ + Len(bytes_read)]
                 /\ send_progress' =
                      IF notify
                        THEN send_progress \cup {[num |-> send.sent_bytes + Len(bytes_read),
                                                  den |-> send.filesize, label |-> "MB"]}
                        ELSE send_progress
                 /\ UNCHANGED log
            ELSE /\ SendFail(send, log, <<"Send failed", out>>)
                 /\ UNCHANGED send_progress
  /\ UNCHANGED <<lockVars, loop, heard, qr, running, now, regVars, active_transfers, handler, netVars, fsVars, cbVars,
                 share, s_wire, s_end, temp_zip, send_active>>

\* RemoveTemp, were the archive left behind
RemoveTemp_Never(exists_zip) == exists_zip

\* whether the archive exists after "if temp_zip_path and exists: os.remove"
RemoveTemp(exists_zip) == FALSE

\* "finally": remove the temporary archive, send_active_callback(False)
SendFinally ==
  /\ send.pc = "finally"
  /\ temp_zip' = RemoveTemp(temp_zip)
  /\ send_active' = Append(send_active, FALSE)
  /\ send' = [send EXCEPT !.pc = "done"]
  /\ UNCHANGED <<lockVars, loop, heard, qr, running, now, regVars, active_transfers, handler, netVars, fsVars, cbVars,
                 log, share, s_wire, s_end, s_out, send_progress>>

send_item == SendStart \/ SendConnect \/ SendReadReply \/ SendChunk \/ SendFinally

\* what the remote receiver may reply with
ReplyBytes == {"ACCEPT", "REJECT", "x", SP, NL}
ReplyStreams == SeqsUpTo(ReplyBytes, MaxReply)

InitSendItem ==
  /\ InitCore
  /\ InitSender
  /\ wire = [c \in Conns |-> <<>>]
  /\ peer_end = [c \in Conns |-> "none"]
  /\ \E known \in BOOLEAN :
       /\ peers = IF known THEN Put(<<>>, "bob", Entry("10.0.0.1", 0, "desktop", FALSE)) ELSE <<>>
       /\ upserted = IF known THEN Put(<<>>, "bob", "10.0.0.1") ELSE <<>>
  /\ \E content \in Payloads :
       share = Put(Put(<<>>, "a.txt", content), "d", <<"directory">>)
  /\ s_wire \in ReplyStreams
  /\ s_end \in {"close", "silent"}

SpecSend == InitSendItem /\ [][send_item]_vars

(* ======================================================================= *)
(* Properties                                                              *)
(* ======================================================================= *)
Live(c) == handler[c].pc \notin {"idle", "done"}
Completed == [num |-> 1, den |-> 1, label |-> "Completed!"]

\* C1: at every moment the keys of the ActiveTransfer table are exactly the
\* identifiers of the inbound handlers that have started and not yet finished,
\* whichever way a handler ends.
C1_ActiveTransfersAreLiveHandlers ==
  DOMAIN active_transfers = {uuid4(c) : c \in {d \in Conns : Live(d)}}

\* one handler has ended in a failure while another is still receiving
C1_Witness ==
  \E c, d \in Conns :
    /\ handler[c].pc = "done"
    /\ handler[c].exc = "File transfer incomplete."
    /\ handler[d].pc = "stream"
    /\ DOMAIN active_transfers = {uuid4(d)}

\* C2: for a transfer request whose decision resolves, the receiver sends
\* exactly one reply token, ACCEPT for accept and REJECT otherwise, and it has
\* sent it before it creates the destination file or writes a payload byte.
C2_OneReplyBeforeFile ==
  \A c \in Conns :
    /\ (c \in requests /\ handler[c].pc \in {"await", "reply"})
         => (conn_out[c] = <<>> /\ c \notin created)
    /\ (c \in requests /\ handler[c].pc \notin {"await", "reply"})
         => conn_out[c] = <<IF handler[c].accepted THEN "ACCEPT" ELSE "REJECT">>
    /\ (c \in created \/ handler[c].written > 0) => conn_out[c] = <<"ACCEPT">>

\* an accepted transfer has written payload bytes to its file
C2_Witness ==
  \E c \in Conns :
    c \in requests /\ c \in created /\ handler[c].written > 0 /\ conn_out[c] = <<"ACCEPT">>

\* C3: send_item sends the header line first and sends payload bytes only
\* after it has read a reply line that is ACCEPT; after any other reply it
\* sends no payload byte at all.
C3_PayloadOnlyAfterAccept ==
  /\ s_out # <<>> =>
       /\ send.header = json_dumps(send.filename, send.filesize, send.item_type, nickname)
                          \o <<NL>>
       /\ Len(s_out) >= Len(send.header)
       /\ Take(s_out, Len(send.header)) = send.header
  /\ Len(s_out) > Len(send.header) =>
       (send.reply_read /\ strip(send.line) = <<"ACCEPT">>)
  /\ (send.reply_read /\ strip(send.line) # <<"ACCEPT">>) => s_out = send.header

\* the payload of a non-empty file was sent after an ACCEPT
C3_Witness ==
  /\ send.pc = "done"
  /\ send.line = <<"ACCEPT", NL>>
  /\ Len(s_out) > Len(send.header)

\* C4: the payload bytes written to the destination file never exceed the
\* declared filesize, and completion is reported only when exactly filesize
\* bytes were written, for every split of the stream into reads.
C4_WrittenWithinFilesize ==
  \A c \in Conns :
    /\ handler[c].written <= handler[c].metadata.filesize
    /\ Completed \in receive_progress[c] => handler[c].written = handler[c].metadata.filesize

\* C5: when the connection closes or the read times out before filesize
\* payload bytes have arrived, completion is never reported, an I/O error is
\* logged and the partial file does not exist when the handler ends.
ShortReceive(c) ==
  /\ handler[c].pc = "done"
  /\ c \in created
  /\ handler[c].remaining_bound
  /\ handler[c].received_bytes < handler[c].filesize
C5_ShortReceiveFails ==
  \A c \in Conns :
    ShortReceive(c) =>
      /\ Completed \notin receive_progress[c]
      /\ \E e \in {"File transfer incomplete.", "timed out"} :
           <<"Receive failed", e>> \in log[recvTask(c)]
      /\ ~exists(downloads, handler[c].filepath)
      /\ basename(handler[c].metadata.filename) \notin DOMAIN downloads

\* a handler has ended after it wrote a part of the payload
C5_Witness ==
  \E c \in Conns : ShortReceive(c) /\ handler[c].received_bytes > 0

\* C6: one pass of the eviction sweep removes exactly the entries older than
\* PEER_TIMEOUT (30) that are not pinned, and leaves every other entry as it was.
C6_SweepRemovesExactlyStale ==
  [][cleanup_stale_peers =>
       /\ DOMAIN peers' =
            {n \in DOMAIN peers : ~(now - peers[n].last_seen > 30 /\ ~peers[n].qr_connected)}
       /\ \A n \in DOMAIN peers' : peers'[n] = peers[n]]_vars

\* a sweep has removed a stale entry and kept a pinned one that is as old
C6_Witness ==
  /\ <<"timed out", "amy">> \in log[serviceTask]
  /\ "amy" \notin DOMAIN peers
  /\ "bob" \in DOMAIN peers
  /\ peers["bob"].qr_connected
  /\ now - peers["bob"].last_seen > 30

\* C7: once an entry is pinned, no discovery datagram, pairing handshake or
\* sweep unpins or removes it; a discovery datagram for a known nickname keeps
\* the pinned flag as it was.
C7_PinnedStaysPinned ==
  [][/\ \A n \in DOMAIN peers :
          peers[n].qr_connected => (n \in DOMAIN peers' /\ peers'[n].qr_connected)
     /\ listen_for_peers =>
          \A n \in DOMAIN peers :
            n \in DOMAIN peers' /\ peers'[n].qr_connected = peers[n].qr_connected]_vars

\* a datagram has overwritten a pinned entry, which then outlived the timeout
C7_Witness ==
  /\ "bob" \in DOMAIN peers
  /\ peers["bob"] = Entry("10.0.0.2", 0, "unknown", TRUE)
  /\ now = 45

\* C8: get_peer_dict() holds exactly the nicknames upserted and not evicted
\* since, each with the address of its latest upsert.
C8_SnapshotIsLatestUpserts == get_peer_dict = upserted

\* one peer was evicted, the other re-announced itself from a new address
C8_Witness ==
  /\ "amy" \notin DOMAIN get_peer_dict
  /\ <<"timed out", "amy">> \in log[serviceTask]
  /\ "bob" \in DOMAIN get_peer_dict
  /\ get_peer_dict["bob"] = "10.0.0.1"
  /\ peers["bob"].qr_connected
  /\ peers["bob"].last_seen = now

\* C9: when the peer closes before a newline-terminated header line has
\* arrived, the receiver requests no decision, sends no reply and creates no file.
ClosedBeforeHeaderLine(c) ==
  /\ running
  /\ peer_end[c] = "close"
  /\ handler[c].pc \notin {"idle", "header"}
  /\ ~handler[c].remaining_bound
C9_NoHeaderLineNoReply ==
  \A c \in Conns :
    ClosedBeforeHeaderLine(c) => (c \notin requests /\ conn_out[c] = <<>> /\ c \notin created)

\* C10: when the header line is not valid JSON, or is a transfer request
\* without filename or without filesize, the receiver requests no decision,
\* sends no reply, creates no file and changes no registry entry.
BadHeader(c) ==
  LET parsed == json_loads(handler[c].metadata_bytes) IN
  \/ parsed.kind # "object"
  \/ /\ get(parsed.obj, "type", None) # "qr_handshake"
     /\ ("filename" \notin parsed.obj.keys \/ "filesize" \notin parsed.obj.keys)
C10_BadHeaderLeavesNoTrace ==
  \A c \in Conns :
    (handler[c].pc \notin {"idle", "header"} /\ BadHeader(c)) =>
      /\ c \notin requests
      /\ conn_out[c] = <<>>
      /\ c \notin created
      /\ downloads = <<>>
      /\ peers = <<>>

\* a handler has ended on a request that names a file but no size
C10_Witness ==
  \E c \in Conns :
    /\ handler[c].pc = "done"
    /\ handler[c].remaining_bound
    /\ handler[c].metadata_bytes = <<"{", "fn=a.txt", "}">>

\* C11: the header is the bytes before the first newline, and the bytes after
\* it, whether they came in a header read or in a later read, are the content
\* of the destination file in the order they were sent: in every step the
\* bytes taken so far followed by the bytes still to come stay the same stream.
Reassembled(c) ==
  LET h == handler[c] IN
  IF ~h.remaining_bound THEN h.metadata_bytes
  ELSE IF c \in created THEN h.metadata_bytes \o <<NL>> \o files[c]
  ELSE h.metadata_bytes \o <<NL>> \o h.remaining_data
C11_PayloadKeptInOrder ==
  [][\A c \in Conns :
       /\ Reassembled(c)' \o wire'[c] = Reassembled(c) \o wire[c]
       /\ NL \notin Range(handler'[c].metadata_bytes)
       /\ (c \in created' /\ handler'[c].pc \in {"stream", "check"}) =>
            /\ NameOf(handler'[c].filepath) \in DOMAIN downloads'
            /\ downloads'[NameOf(handler'[c].filepath)] = c]_vars

\* a file completed from one byte read with the header and one read later
C11_Witness ==
  \E c \in Conns :
    /\ handler[c].remaining_data = <<"a">>
    /\ handler[c].metadata_bytes = <<"{", "fn=a.txt", "fs=2", "sn=bob", "}">>
    /\ Completed \in receive_progress[c]
    /\ <<"a.txt">> \in DOMAIN downloads
    /\ files[downloads[<<"a.txt">>]] = <<"a", NL>>

(* ======================================================================= *)
(* One transfer end to end: send_item of one instance connected to the     *)
(* transfer port of another (connection 1)                                 *)
(* ======================================================================= *)

\* the bytes of s_out that have reached the receiver's socket
Arrived == Len(Reassembled(1)) + Len(wire[1])
\* whether the reply line the receiver sent has reached the sender's socket
ReplyArrived == conn_out[1] = <<>> \/ send.reply_read \/ s_wire # <<>>

\* the network carries what the sender sent to the receiver's socket
CarryRequest ==
  /\ Arrived < Len(s_out)
  /\ wire' = [wire EXCEPT ![1] = @ \o Drop(s_out, Arrived)]
  /\ peer_end' = [peer_end EXCEPT ![1] = IF @ = "none" THEN "silent" ELSE @]
  /\ UNCHANGED <<lockVars, loop, heard, qr, sendVars, running, now, regVars, active_transfers, handler, conn_out, fsVars,
                 log, cbVars>>

\* the network carries the receiver's reply line to the sender's socket
CarryReply ==
  /\ ~ReplyArrived
  /\ s_wire' = <<conn_out[1][1], NL>>
  /\ UNCHANGED <<lockVars, loop, heard, qr, running, now, regVars, active_transfers, handler, netVars, fsVars, log, cbVars,
                 share, send, s_end, s_out, temp_zip, send_active, send_progress>>

\* the sender has left "with socket.socket(...) as s": the receiver sees the close
SenderCloses ==
  /\ send.pc \in {"finally", "done"}
  /\ peer_end[1] = "silent"
  /\ Arrived = Len(s_out)
  /\ peer_end' = [peer_end EXCEPT ![1] = "close"]
  /\ UNCHANGED <<lockVars, loop, heard, qr, sendVars, running, now, regVars, active_transfers, handler, wire, conn_out,
                 fsVars, log, cbVars>>

\* the handler has left "with conn": the sender sees the close
ReceiverCloses ==
  /\ handler[1].pc \in {"except", "finally", "done"}
  /\ s_end = "silent"
  /\ ReplyArrived
  /\ s_end' = "close"
  /\ UNCHANGED <<lockVars, loop, heard, qr, running, now, regVars, active_transfers, handler, netVars, fsVars, log, cbVars,
                 share, send, s_wire, s_out, temp_zip, send_active, send_progress>>

\* the receiving instance on a transfer request
ReceiveRequest ==
  \E c \in Conns :
    \/ Accept(c)
    \/ RecvHeader(c)
    \/ ParseHeader(c)
    \/ Decide(c)
    \/ SendReply(c)
    \/ OpenFile(c)
    \/ RecvPayload(c)
    \/ CheckComplete(c)
    \/ Except(c)
    \/ Finally(c)

InitXfer ==
  /\ InitCore
  /\ InitSender
  /\ wire = [c \in Conns |-> <<>>]
  /\ peer_end = [c \in Conns |-> "none"]
  /\ peers = Put(<<>>, "bob", Entry("10.0.0.1", 0, "desktop", FALSE))
  /\ upserted = Put(<<>>, "bob", "10.0.0.1")
  /\ \E content \in Payloads :
       share = Put(Put(<<>>, "a.txt", content), "d", <<"directory">>)
  /\ s_wire = <<>>
  /\ s_end = "silent"

NextXfer ==
  \/ send_item
  \/ ReceiveRequest
  \/ CarryRequest
  \/ CarryReply
  \/ SenderCloses
  \/ ReceiverCloses

SpecXfer == InitXfer /\ [][NextXfer]_vars

\* C12: when the receiver's decision is reject, the receiver creates no file,
\* the sender sends no payload byte, and the sender's attempt ends logged as
\* rejected and not as a failure.
Rejected == 1 \in requests /\ handler[1].pc # "await" /\ ~handler[1].accepted
SendFailureLogged ==
  \E line \in log[sendTask] : line[1] \in {"Send failed", "Connection timeout"}
C12_RejectIsNormalOutcome ==
  Rejected =>
    /\ 1 \notin created
    /\ downloads = <<>>
    /\ s_out = send.header
    /\ send.pc = "done" => (<<"Transfer rejected", "">> \in log[sendTask] /\ ~SendFailureLogged)

(* ======================================================================= *)
(* Simultaneous transfers: every connection carries a complete file under  *)
(* a name of its own                                                       *)
(* ======================================================================= *)
FileName(c) == <<"fn=a.txt", "fn=b.txt", "fn=d.zip">>[c]
Content(c) == <<(<<"a">>), <<NL, "a">>, <<NL>>>>[c]

InitMany ==
  /\ InitBackend
  /\ wire = [c \in Conns |->
               <<"{", FileName(c), SizeTok(Len(Content(c))), "}", NL>> \o Content(c)]
  /\ \E e \in {"silent", "close"} : peer_end = [c \in Conns |-> e]

SpecMany == InitMany /\ [][ReceiveRequest]_vars

\* C13: a connection awaiting its decision does not keep the listener from
\* accepting the next one; every transfer whose file was opened ends complete,
\* and a completed transfer's destination file holds exactly the bytes of its
\* own connection, whatever the other transfers do.
C13_SimultaneousTransfersComplete ==
  /\ \A c, d \in Conns :
       (/\ handler[c].pc = "await"
        /\ handler[d].pc = "idle"
        /\ \A e \in 1..(d - 1) : handler[e].pc # "idle") => ENABLED Accept(d)
  /\ \A c \in Conns :
       /\ (handler[c].pc = "done" /\ c \in created) => Completed \in receive_progress[c]
       /\ Completed \in receive_progress[c] =>
            /\ NameMember[FileName(c)] \in DOMAIN downloads
            /\ files[downloads[NameMember[FileName(c)]]] = Content(c)

\* the second connection was accepted, decided and completed while the first
\* one was still awaiting its decision
C13_Witness ==
  /\ handler[1].pc = "await"
  /\ handler[2].pc = "done"
  /\ Completed \in receive_progress[2]
  /\ downloads = Put(<<>>, <<"b.txt">>, 2)
  /\ files[2] = <<NL, "a">>

(* ======================================================================= *)
(* Progress of a handler: clients that stop, and clients that never do     *)
(* ======================================================================= *)

\* a client that goes on sending supplies its next byte
ClientSendsMore(c) ==
  /\ peer_end[c] = "endless"
  /\ wire[c] = <<>>
  /\ wire' = [wire EXCEPT ![c] = <<"x">>]
  /\ UNCHANGED <<lockVars, loop, heard, qr, sendVars, running, now, regVars, active_transfers, handler, peer_end, conn_out,
                 fsVars, log, cbVars>>

InitLive ==
  /\ InitBackend
  /\ \E s \in Streams, e \in {"close", "silent", "endless"} :
       /\ wire = [c \in Conns |-> IF c = 1 THEN s ELSE <<>>]
       /\ peer_end = [c \in Conns |-> IF c = 1 THEN e ELSE "none"]

NextLive == Receive \/ \E c \in Conns : ClientSendsMore(c)

\* a handler thread that can take a step takes one: its reads return (data,
\* close or timeout) and the decision collaborator resolves its request
FairRecv == InitLive /\ [][NextLive]_vars /\ WF_vars(Receive)

\* C14: provided decisions resolve and reads return, every accepted inbound
\* connection eventually reaches DONE: its handler has ended and its
\* ActiveTransfer entry is removed.
C14_HandlerTerminates ==
  \A c \in Conns :
    (handler[c].pc # "idle") ~>
      (handler[c].pc = "done" /\ uuid4(c) \notin DOMAIN active_transfers)

\* C15 as stated: for every header of type qr_handshake the receiver requests
\* no decision, sends no ACCEPT/REJECT and creates no file; it replies with
\* exactly one qr_handshake_response before the connection ends, and only
\* after the sender is in the registry as a pinned peer.
IsQRHandshake(c) == get(handler[c].metadata, "type", None) = "qr_handshake"
QRNickname(c) == get(handler[c].metadata, "nickname", None)
QRNoTransfer(c) ==
  /\ c \notin requests
  /\ c \notin created
  /\ downloads = <<>>
  /\ conn_out[c] \in {<<>>, <<"qr_handshake_response">>}
QRReplyAfterPin(c) ==
  conn_out[c] # <<>> =>
    /\ QRNickname(c) \in DOMAIN peers
    /\ peers[QRNickname(c)].qr_connected
    /\ peers[QRNickname(c)].ip = addr(c)
C15_QRHandshakeReplied ==
  \A c \in Conns :
    IsQRHandshake(c) =>
      /\ QRNoTransfer(c)
      /\ QRReplyAfterPin(c)
      /\ handler[c].pc = "done" => conn_out[c] = <<"qr_handshake_response">>

\* C15, amended: the same, with the reply and the registry entry only for a
\* handshake that carries a non-empty nickname; a handshake without one gets
\* no reply and changes no registry entry.
C15_QRHandshakeWithNicknameReplied ==
  \A c \in Conns :
    IsQRHandshake(c) =>
      /\ QRNoTransfer(c)
      /\ QRReplyAfterPin(c)
      /\ IF QRNickname(c) \in {None, ""}
           THEN conn_out[c] = <<>> /\ peers = <<>>
           ELSE handler[c].pc \in {"except", "finally", "done"} =>
                  conn_out[c] = <<"qr_handshake_response">>

\* a handshake from bob was answered and its connection has ended
C15_Witness ==
  \E c \in Conns :
    /\ IsQRHandshake(c)
    /\ handler[c].pc = "done"
    /\ conn_out[c] = <<"qr_handshake_response">>
    /\ peers = Put(<<>>, "bob", Entry(addr(c), QR_GRACE, "android", TRUE))

(* ======================================================================= *)
(* The pairing listener                                                    *)
(* ======================================================================= *)

\* the identity a pairing connection has read, once it parses
QRIdentity(q) == json_loads(strip(qr[q].data))
\* connection q writes the registry entry of nickname n in this step
QRWrites(q, n) ==
  /\ qr[q].pc = "parse"
  /\ qr'[q].pc = "done"
  /\ QRIdentity(q).kind = "object"
  /\ get(QRIdentity(q).obj, "nickname", None) = n

\* C16: on every connection the pairing listener has sent its own identity
\* before it reads a byte; a registry entry is written only by a connection that
\* has sent its identity and received the peer's, the entry is pinned with
\* last-seen = now + 300, and no sweep removes a pinned entry.
C16_PairingListenerOrder ==
  [][/\ \A q \in QRConns : qr'[q].data # qr[q].data => qr[q].out = our_info
     /\ \A n \in DOMAIN peers' :
          (n \notin DOMAIN peers \/ peers'[n] # peers[n]) =>
            \E q \in QRConns :
              /\ QRWrites(q, n)
              /\ qr[q].out = our_info
              /\ peers'[n] = Entry(get(QRIdentity(q).obj, "ip", addr(q)), now + 300,
                                   get(QRIdentity(q).obj, "device_type", "android"), TRUE)
     /\ \A n \in DOMAIN peers : peers[n].qr_connected => n \in DOMAIN peers']_vars

\* a peer paired at time 15 is still registered, pinned, after two more sweeps' time
C16_Witness ==
  /\ now = MaxTime
  /\ "bob" \in DOMAIN peers
  /\ peers["bob"] = Entry("10.0.0.2", TickStep + 300, "android", TRUE)
  /\ \E q \in QRConns : qr[q].pc = "done" /\ qr[q].out = our_info /\ qr[q].data # <<>>
  /\ <<"timed out", "bob">> \notin log[serviceTask]

\* everything the peer of a pairing connection sends
QRSent(q) == qr[q].data \o qr[q].wire
\* the peer closes early or stays silent before a complete identity line, or
\* its identity does not parse or carries no nickname
PairingPeerFails(q) ==
  LET identity == json_loads(strip(QRSent(q))) IN
  /\ qr[q].pc # "idle"
  /\ \/ qr[q].peer_end = "silent" /\ NL \notin Range(QRSent(q))
     \/ identity.kind # "object"
     \/ get(identity.obj, "nickname", None) \in {None, ""}

\* C18: no step of a pairing connection whose peer fails changes the registry,
\* another connection or the running flag; its thread ends; and while the
\* services run the listener accepts the next connection.
C18_PairingFailureContained ==
  [][/\ \A q \in QRConns :
          (PairingPeerFails(q) /\ qr'[q] # qr[q]) =>
            /\ peers' = peers
            /\ running' = running
            /\ \A p \in QRConns \ {q} : qr'[p] = qr[p]
            /\ qr[q].pc \in {"recv", "parse"} /\ qr[q].wire = <<>> => qr'[q].pc \in {"parse", "done"}
     /\ \A q \in QRConns :
          (running /\ qr[q].pc = "idle" /\ \A p \in QRConns : p < q => qr[p].pc # "idle")
            => ENABLED QRAccept(q)]_vars

\* the first peer sent an identity without nickname, its connection is over,
\* the registry is empty, and the second connection has been accepted
C18_Witness ==
  /\ qr[1].pc = "done"
  /\ qr[1].data = <<"{", "nk=", "}", NL>>
  /\ peers = <<>>
  /\ qr[2].pc = "send"

(* ======================================================================= *)
(* The discovery listener                                                  *)
(* ======================================================================= *)

\* the message of the datagram just received
Heard == json_loads(heard').obj

\* C19: a pass of the listen loop whose datagram has no magic field or another
\* magic string leaves the registry as it was: no entry created, changed or
\* removed.
C19_ForeignDatagramIgnored ==
  [][(recvfrom /\ get(Heard, "magic", None) # BROADCAST_MAGIC) => peers' = peers]_vars

\* bob is registered at 10.0.0.1 and the latest datagram, without magic field,
\* announced bob at 10.0.0.2
C19_Witness ==
  /\ heard = <<"{", "nk=bob", "ip=10.0.0.2", "}">>
  /\ "bob" \in DOMAIN peers
  /\ peers["bob"].ip = "10.0.0.1"
  /\ now > peers["bob"].last_seen

\* C20: a datagram carrying the local nickname leaves the registry as it was;
\* any other datagram with the right magic is upserted under its nickname with
\* its address, device class and the current time, and no pass sets the pinned
\* flag of an entry that was not pinned.
C20_SelfIgnoredOthersUnpinned ==
  [][recvfrom =>
       LET peer_nickname == get(Heard, "nickname", None) IN
       /\ peer_nickname = nickname => peers' = peers
       /\ (json_loads(heard').kind = "object" /\ get(Heard, "magic", None) = BROADCAST_MAGIC
           /\ peer_nickname # nickname) =>
            /\ DOMAIN peers' = DOMAIN peers \cup {peer_nickname}
            /\ peers'[peer_nickname].ip = get(Heard, "ip", None)
            /\ peers'[peer_nickname].last_seen = now
            /\ peers'[peer_nickname].device_type = get(Heard, "device_type", "unknown")
            /\ \A n \in DOMAIN peers \ {peer_nickname} : peers'[n] = peers[n]
       /\ \A n \in DOMAIN peers' :
            peers'[n].qr_connected => (n \in DOMAIN peers /\ peers[n].qr_connected)]_vars

\* the latest datagram carried the local nickname; amy was discovered and is
\* not pinned, bob was paired and is pinned
C20_Witness ==
  /\ heard = <<"{", "mg=ok", "nk=me", "ip=10.0.0.9", "dt=desktop", "}">>
  /\ DOMAIN peers = {"amy", "bob"}
  /\ ~peers["amy"].qr_connected
  /\ peers["bob"].qr_connected

\* a datagram that does not decode, is not valid JSON, or is JSON without the
\* magic
Malformed(data) ==
  \/ json_loads(data).kind # "object"
  \/ "magic" \notin json_loads(data).obj.keys

\* C21: a pass of the listen loop that received a malformed datagram leaves the
\* registry unchanged and emits no log line, and the listener receives the next
\* datagram.
C21_MalformedDroppedSilently ==
  [][(recvfrom /\ Malformed(heard')) =>
       /\ peers' = peers
       /\ log'[serviceTask] = {}
       /\ running' = running]_vars

\* C22: every registry key is a nickname string and every entry holds an
\* address string (never the absent value).
C22_RegistryWellFormed ==
  \A n \in DOMAIN peers : n # None /\ peers[n].ip # None

(* ======================================================================= *)
(* send_item: preconditions and the temporary archive                      *)
(* ======================================================================= *)

\* send_item was called for an unknown nickname or a missing item
PreconditionFails ==
  /\ send.pc # "idle"
  /\ \/ send.peer_nickname \notin DOMAIN get_peer_dict
     \/ send.item_name \notin DOMAIN share

\* C23: send_item for a nickname absent from the registry or an item absent
\* from the share directory has returned with the failure logged, nothing
\* passed to a socket, no archive, and no active or progress callback.
C23_PreconditionFailureReturns ==
  PreconditionFails =>
    /\ send.pc = "done"
    /\ \/ <<"Peer not found.", send.peer_nickname>> \in log[sendTask]
       \/ <<"Item not found.", send.item_name>> \in log[sendTask]
    /\ s_out = <<>>
    /\ send.header = <<>>
    /\ ~send.reply_read
    /\ ~temp_zip
    /\ send_active = <<>>
    /\ send_progress = {}

\* bob is known, the item is not in the share directory
C23_Witness ==
  /\ send.pc = "done"
  /\ send.peer_nickname = "bob"
  /\ send.item_name = "nope"
  /\ <<"Item not found.", "nope">> \in log[sendTask]
  /\ send_active = <<>>

\* C24: for a directory item the archive exists before anything is passed to
\* the socket and throughout the attempt, and it does not exist once
\* send_item has returned, whatever the outcome.
C24_ArchiveRemoved ==
  /\ send.pc = "done" => ~temp_zip
  /\ (send.item_type = "directory" /\ send.pc \in {"connect", "reply", "stream"}) => temp_zip
  /\ send.pc \in {"idle", "connect"} => s_out = <<>>
  /\ temp_zip => send.item_type = "directory"

\* a directory was packed, the request was rejected, and the archive is gone
C24_Witness ==
  /\ send.pc = "done"
  /\ send.item_type = "directory"
  /\ send.filename = <<"d.zip">>
  /\ s_out = send.header
  /\ <<"Transfer rejected", "">> \in log[sendTask]
  /\ ~temp_zip

(* ======================================================================= *)
(* Received archives and destination paths                                 *)
(* ======================================================================= *)

\* handler c has ended an accepted transfer of kind directory
DirectoryEnded(c) ==
  /\ handler[c].pc = "done"
  /\ handler[c].accepted
  /\ get(handler[c].metadata, "type", "file") = "directory"
UnpackAttempted(c) ==
  \E line \in log[recvTask(c)] : line[1] \in {"unpacked.", "Error unpacking folder"}

\* C25: once the handler of an accepted directory transfer has ended, no file
\* it created is left in the downloads directory, whether the unpack
\* succeeded, failed (which is logged) or the receipt was incomplete; and an
\* unpack was attempted only if all filesize bytes were received.
C25_ArchiveNotLeftBehind ==
  \A c \in Conns :
    /\ DirectoryEnded(c) =>
         /\ \A n \in DOMAIN downloads : downloads[n] # c
         /\ (c \in created /\ handler[c].received_bytes # handler[c].metadata.filesize) =>
              \E line \in log[recvTask(c)] : line[1] = "Receive failed"
    /\ UnpackAttempted(c) =>
         /\ handler[c].received_bytes = handler[c].metadata.filesize
         /\ Len(files[c]) >= handler[c].metadata.filesize

\* a two-byte archive was received in full, its unpack failed and was logged,
\* and the archive is gone
C25_Witness ==
  /\ DirectoryEnded(1)
  /\ 1 \in created
  /\ handler[1].received_bytes = 2
  /\ <<"Error unpacking folder", "">> \in log[recvTask(1)]
  /\ downloads = <<>>

\* a name that denotes a direct child of the directory it is joined to
DirectChild(name) == "/" \notin Range(name) /\ name \notin {<<>>, <<".">>, <<"..">>}

\* C26: whatever filename the header declares, a file a handler creates is a
\* direct child of the downloads directory named by the base name of the
\* declared filename, and every path of the downloads tree that holds a file
\* is a direct child: nothing is created, written or removed outside it.
C26_DestinationInsideDownloads ==
  /\ \A c \in created :
       /\ handler[c].filepath = DOWNLOAD_DIR \o <<"/">> \o basename(handler[c].metadata.filename)
       /\ DirectChild(NameOf(handler[c].filepath))
  /\ \A n \in DOMAIN downloads : DirectChild(n)
  /\ \A c \in Conns :
       handler[c].pc = "done" /\ handler[c].metadata.filename = <<"..">> => c \notin created

\* the header declared ../a.txt and the file was completed as downloads/a.txt
C26_Witness ==
  /\ handler[1].metadata.filename = <<"..", "/", "a.txt">>
  /\ Completed \in receive_progress[1]
  /\ DOMAIN downloads = {<<"a.txt">>}
  /\ handler[1].pc = "done"

(* ======================================================================= *)
(* The listener loops                                                      *)
(* ======================================================================= *)

InLoop(l) == loop[l] \in {"check", "body"}

\* C27: while the running flag is set a listener that is in its loop stays in
\* it through every step, whether a datagram or an accept raised, a handler
\* thread failed or another listener failed to start; a listener ends outside
\* its loop only from its own start, with its startup failure in the log.
C27_ListenersSurviveErrors ==
  [][\A l \in Listeners :
       /\ (running /\ InLoop(l)) => InLoop(l)'
       /\ (loop'[l] = "failed" /\ loop[l] # "failed") =>
            /\ loop[l] = "start"
            /\ StartupFailureLine(l) \in log'[serviceTask]
            /\ \A m \in Loops \ {l} : loop'[m] = loop[m]
       /\ (loop'[l] = "exited" /\ loop[l] # "exited") => ~running]_vars

\* the pairing listener failed to start, a transfer handler has ended in a
\* failure, a datagram that does not decode was just logged, and the other two
\* listeners are in their loops
C27_Witness ==
  /\ running
  /\ loop["qr_connect_server"] = "failed"
  /\ InLoop("file_server")
  /\ InLoop("listen_for_peers")
  /\ handler[1].pc = "done"
  /\ <<"Receive failed", "timed out">> \in log[recvTask(1)]
  /\ <<"Peer listen error", "UnicodeDecodeError">> \in log[serviceTask]

\* C28: once the running flag is cleared each of the five loops leaves its
\* loop, and a TCP listener that has left its loop starts no further handler.
C28_LoopsExitAfterStop ==
  /\ \A l \in Loops : (~running /\ InLoop(l)) ~> (loop[l] = "exited")
  /\ [][/\ loop["file_server"] = "exited" => handler' = handler
        /\ loop["qr_connect_server"] = "exited" => qr' = qr]_vars

\* the flag is cleared, every loop has exited, and connections were accepted
\* on both TCP ports before
C28_Witness ==
  /\ ~running
  /\ \A l \in Loops : loop[l] = "exited"
  /\ handler[1].pc = "header"
  /\ qr[1].pc = "send"

(* ======================================================================= *)
(* Failures and rejections in the log                                      *)
(* ======================================================================= *)

\* the inbound handler has ended without "received successfully."
ReceiveEndedBadly(c) ==
  /\ handler[c].pc = "done"
  /\ <<"received successfully.", "">> \notin log[recvTask(c)]
\* send_item has returned without "sent to"
SendEndedBadly ==
  /\ send.pc = "done"
  /\ <<"sent to", send.peer_nickname>> \notin log[sendTask]

\* C29: an inbound transfer that ended in a failure or a rejection has a line
\* in the log besides the receipt of its header, and an outbound one has its
\* "not found", "Send failed", "Connection timeout" or "Transfer rejected"
\* line, when the task ends.
C29_FailuresAndRejectionsLogged ==
  /\ \A c \in Conns :
       ReceiveEndedBadly(c) => \E line \in log[recvTask(c)] : line[1] # "Received metadata"
  /\ SendEndedBadly =>
       \E line \in log[sendTask] :
         line[1] \in {"Peer not found.", "Item not found.", "Send failed", "Connection timeout",
                      "Transfer rejected"}

(* ======================================================================= *)
(* Sender and receiver agree on the content                                *)
(* ======================================================================= *)

\* the receiver has reported the successful receipt of a plain file
FileReceived ==
  /\ <<"received successfully.", "">> \in log[recvTask(1)]
  /\ handler[1].item_type = "file"

\* C30: whenever the receiver has reported the successful receipt of a file
\* sent by send_item, its destination file holds the bytes of the sender's
\* source file, in order, and as many as the header declared.
C30_ReceivedEqualsSent ==
  FileReceived =>
    /\ NameOf(handler[1].filepath) \in DOMAIN downloads
    /\ files[downloads[NameOf(handler[1].filepath)]] = share[send.item_name]
    /\ Len(files[downloads[NameOf(handler[1].filepath)]]) = handler[1].metadata.filesize
    /\ handler[1].metadata.filesize = send.filesize

\* a two-byte file arrived in two reads and both sides report success
C30_Witness ==
  /\ FileReceived
  /\ share["a.txt"] = <<"a", NL>>
  /\ files[1] = <<"a", NL>>
  /\ handler[1].remaining_data = <<>>
  /\ <<"sent to", "bob">> \in log[sendTask]
  /\ handler[1].pc = "done"
(* ======================================================================= *)
(* The locked sections, statement by statement                             *)
(* ======================================================================= *)

\* Free, were "with lock:" entered without waiting
Free_Always(lock) == TRUE

\* "with lock:" waits until no thread is inside
Free(lock) == lock = {}
Enter(lock, t) == lock \cup {t}

\* Leave, were the lock kept after the block
Leave_Never(lock, t) == lock

\* the end of a "with lock:" block
Leave(lock, t) == lock \ {t}

\* thread t moves to pc, having executed a statement of kind op on map
Step(t, pc, op, map) ==
  /\ thread' = [thread EXCEPT ![t].pc = pc]
  /\ last' = [thread |-> t, op |-> op, map |-> map]

\* the nicknames remote instances announce or pair with
RemoteNames == {"bob", nickname}

\* listen_for_peers, one pass: recvfrom, the self filter, the locked upsert
\* with the log line of a new peer inside the block
ListenLocked ==
  LET t == "listen_for_peers"
      n == thread[t].peer_nickname
  IN
  /\ \/ /\ thread[t].pc = "idle"
        /\ running
        /\ \E peer_nickname \in RemoteNames :
             /\ thread' = [thread EXCEPT ![t].peer_nickname = peer_nickname,
                             ![t].pc = IF peer_nickname # nickname THEN "lock" ELSE "idle"]
             /\ last' = [thread |-> t, op |-> "socket", map |-> None]
        /\ UNCHANGED <<peers_lock, regVars, log>>
     \/ /\ thread[t].pc = "lock"
        /\ Free(peers_lock)
        /\ peers_lock' = Enter(peers_lock, t)
        /\ Step(t, "upsert", "acquire", "peers")
        /\ UNCHANGED <<regVars, log>>
     \/ /\ thread[t].pc = "upsert"
        /\ peers' = Put(peers, n, DiscoveryEntry(peers, n, "10.0.0.1", now, "desktop"))
        /\ upserted' = Put(upserted, n, "10.0.0.1")
        /\ Step(t, IF n \notin DOMAIN peers THEN "log" ELSE "unlock", "write", "peers")
        /\ UNCHANGED <<peers_lock, log>>
     \/ /\ thread[t].pc = "log"
        /\ log' = Emit(log, serviceTask, {<<"Discovered peer", n>>})
        /\ Step(t, "unlock", "callback", None)
        /\ UNCHANGED <<peers_lock, regVars>>
     \/ /\ thread[t].pc = "unlock"
        /\ peers_lock' = Leave(peers_lock, t)
        /\ Step(t, "idle", "release", "peers")
        /\ UNCHANGED <<regVars, log>>
  /\ UNCHANGED <<loop, heard, qr, sendVars, running, now, active_transfers, transfer_lock,
                 handler, netVars, fsVars, cbVars>>

\* cleanup_stale_peers, one pass: the clock is read before the block; inside it
\* the stale nicknames are listed, then each is deleted and logged
SweepLocked ==
  LET t == "cleanup_stale_peers"
      n == thread[t].peer_nickname
  IN
  /\ \/ /\ thread[t].pc = "idle"
        /\ running
        /\ thread' = [thread EXCEPT ![t].current_time = now, ![t].pc = "lock"]
        /\ last' = [thread |-> t, op |-> "time", map |-> None]
        /\ UNCHANGED <<peers_lock, regVars, log>>
     \/ /\ thread[t].pc = "lock"
        /\ Free(peers_lock)
        /\ peers_lock' = Enter(peers_lock, t)
        /\ Step(t, "stale", "acquire", "peers")
        /\ UNCHANGED <<regVars, log>>
     \/ /\ thread[t].pc = "stale"
        /\ thread' = [thread EXCEPT ![t].pc = "delete",
                        ![t].stale_peers = StalePeers(peers, thread[t].current_time)]
        /\ last' = [thread |-> t, op |-> "read", map |-> "peers"]
        /\ UNCHANGED <<peers_lock, regVars, log>>
     \/ /\ thread[t].pc = "delete"
        /\ \E nick \in thread[t].stale_peers :
             /\ peers' = Del(peers, nick)
             /\ upserted' = Del(upserted, nick)
             /\ thread' = [thread EXCEPT ![t].pc = "log", ![t].peer_nickname = nick,
                             ![t].stale_peers = @ \ {nick}]
        /\ last' = [thread |-> t, op |-> "write", map |-> "peers"]
        /\ UNCHANGED <<peers_lock, log>>
     \/ /\ thread[t].pc = "log"
        /\ log' = Emit(log, serviceTask, {<<"timed out", n>>})
        /\ Step(t, "delete", "callback", None)
        /\ UNCHANGED <<peers_lock, regVars>>
     \/ /\ thread[t].pc = "delete"
        /\ thread[t].stale_peers = {}
        /\ peers_lock' = Leave(peers_lock, t)
        /\ Step(t, "idle", "release", "peers")
        /\ UNCHANGED <<regVars, log>>
  /\ UNCHANGED <<loop, heard, qr, sendVars, running, now, active_transfers, transfer_lock,
                 handler, netVars, fsVars, cbVars>>

\* get_peer_dict called by send_item or by the interface
SnapshotLocked ==
  LET t == "get_peer_dict" IN
  /\ \/ /\ thread[t].pc = "idle"
        /\ Free(peers_lock)
        /\ peers_lock' = Enter(peers_lock, t)
        /\ Step(t, "read", "acquire", "peers")
     \/ /\ thread[t].pc = "read"
        /\ Step(t, "unlock", "read", "peers")
        /\ UNCHANGED peers_lock
     \/ /\ thread[t].pc = "unlock"
        /\ peers_lock' = Leave(peers_lock, t)
        /\ Step(t, "idle", "release", "peers")
  /\ UNCHANGED <<loop, heard, qr, sendVars, running, now, regVars, active_transfers,
                 transfer_lock, handler, netVars, fsVars, log, cbVars>>

\* handle_item_receive of connection 1 through its locked sections: the
\* transfer is registered, the header read, a qr_handshake pins its peer and is
\* answered (any other header goes straight to the cleanup), the transfer is
\* dropped, receive_active_callback(False) is called
HandlerLocked ==
  LET t == "handle_item_receive"
      c == 1
  IN
  /\ \/ /\ thread[t].pc = "idle"
        /\ Free(transfer_lock)
        /\ transfer_lock' = Enter(transfer_lock, t)
        /\ Step(t, "register", "acquire", "active_transfers")
        /\ UNCHANGED <<peers_lock, regVars, active_transfers, log, conn_out, receive_active>>
     \/ /\ thread[t].pc = "register"
        /\ active_transfers' = Put(active_transfers, uuid4(c), [cancel |-> FALSE, socket |-> c])
        /\ Step(t, "registered", "write", "active_transfers")
        /\ UNCHANGED <<peers_lock, transfer_lock, regVars, log, conn_out, receive_active>>
     \/ /\ thread[t].pc = "registered"
        /\ transfer_lock' = Leave(transfer_lock, t)
        /\ Step(t, "header", "release", "active_transfers")
        /\ UNCHANGED <<peers_lock, regVars, active_transfers, log, conn_out, receive_active>>
     \/ /\ thread[t].pc = "header"
        /\ \E handshake \in BOOLEAN :
             /\ thread' = [thread EXCEPT ![t].peer_nickname = "bob",
                             ![t].pc = IF handshake THEN "qr_lock" ELSE "finally"]
             /\ last' = [thread |-> t, op |-> "socket", map |-> None]
        /\ UNCHANGED <<peers_lock, transfer_lock, regVars, active_transfers, log, conn_out,
                       receive_active>>
     \/ /\ thread[t].pc = "qr_lock"
        /\ Free(peers_lock)
        /\ peers_lock' = Enter(peers_lock, t)
        /\ Step(t, "pin", "acquire", "peers")
        /\ UNCHANGED <<transfer_lock, regVars, active_transfers, log, conn_out, receive_active>>
     \/ /\ thread[t].pc = "pin"
        /\ peers' = Put(peers, thread[t].peer_nickname, PairingEntry(addr(c), now, "android"))
        /\ upserted' = Put(upserted, thread[t].peer_nickname, addr(c))
        /\ Step(t, "qr_unlock", "write", "peers")
        /\ UNCHANGED <<peers_lock, transfer_lock, active_transfers, log, conn_out, receive_active>>
     \/ /\ thread[t].pc = "qr_unlock"
        /\ peers_lock' = Leave(peers_lock, t)
        /\ Step(t, "qr_log", "release", "peers")
        /\ UNCHANGED <<transfer_lock, regVars, active_transfers, log, conn_out, receive_active>>
     \/ /\ thread[t].pc = "qr_log"
        /\ log' = Logged(log, recvTask(c), <<"QR Handshake: Added peer", thread[t].peer_nickname>>)
        /\ Step(t, "qr_reply", "callback", None)
        /\ UNCHANGED <<peers_lock, transfer_lock, regVars, active_transfers, conn_out,
                       receive_active>>
     \/ /\ thread[t].pc = "qr_reply"
        /\ conn_out' = [conn_out EXCEPT ![c] = Append(@, "qr_handshake_response")]
        /\ Step(t, "finally", "socket", None)
        /\ UNCHANGED <<peers_lock, transfer_lock, regVars, active_transfers, log, receive_active>>
     \/ /\ thread[t].pc = "finally"
        /\ Free(transfer_lock)
        /\ transfer_lock' = Enter(transfer_lock, t)
        /\ Step(t, "remove", "acquire", "active_transfers")
        /\ UNCHANGED <<peers_lock, regVars, active_transfers, log, conn_out, receive_active>>
     \/ /\ thread[t].pc = "remove"
        /\ active_transfers' = IF uuid4(c) \in DOMAIN active_transfers
                                 THEN Del(active_transfers, uuid4(c)) ELSE active_transfers
        /\ Step(t, "removed", "write", "active_transfers")
        /\ UNCHANGED <<peers_lock, transfer_lock, regVars, log, conn_out, receive_active>>
     \/ /\ thread[t].pc = "removed"
        /\ transfer_lock' = Leave(transfer_lock, t)
        /\ Step(t, "inactive", "release", "active_transfers")
        /\ UNCHANGED <<peers_lock, regVars, active_transfers, log, conn_out, receive_active>>
     \/ /\ thread[t].pc = "inactive"
        /\ receive_active' = [receive_active EXCEPT ![c] = Append(@, FALSE)]
        /\ Step(t, "done", "callback", None)
        /\ UNCHANGED <<peers_lock, transfer_lock, regVars, active_transfers, log, conn_out>>
  /\ UNCHANGED <<loop, heard, qr, sendVars, running, now, handler, wire, peer_end, fsVars,
                 requests, receive_progress>>

\* handle_qr_connection through its locked section: the identities are
\* exchanged, the peer is pinned inside the block, the line is logged after it
PairingLocked ==
  LET t == "handle_qr_connection" IN
  /\ \/ /\ thread[t].pc = "idle"
        /\ thread' = [thread EXCEPT ![t].peer_nickname = "bob", ![t].pc = "lock"]
        /\ last' = [thread |-> t, op |-> "socket", map |-> None]
        /\ UNCHANGED <<peers_lock, regVars, log>>
     \/ /\ thread[t].pc = "lock"
        /\ Free(peers_lock)
        /\ peers_lock' = Enter(peers_lock, t)
        /\ Step(t, "pin", "acquire", "peers")
        /\ UNCHANGED <<regVars, log>>
     \/ /\ thread[t].pc = "pin"
        /\ peers' = Put(peers, thread[t].peer_nickname, PairingEntry("10.0.0.2", now, "android"))
        /\ upserted' = Put(upserted, thread[t].peer_nickname, "10.0.0.2")
        /\ Step(t, "unlock", "write", "peers")
        /\ UNCHANGED <<peers_lock, log>>
     \/ /\ thread[t].pc = "unlock"
        /\ peers_lock' = Leave(peers_lock, t)
        /\ Step(t, "log", "release", "peers")
        /\ UNCHANGED <<regVars, log>>
     \/ /\ thread[t].pc = "log"
        /\ log' = Emit(log, serviceTask, {<<"QR Connect: Added peer", thread[t].peer_nickname>>})
        /\ Step(t, "done", "callback", None)
        /\ UNCHANGED <<peers_lock, regVars>>
  /\ UNCHANGED <<loop, heard, qr, sendVars, running, now, active_transfers, transfer_lock,
                 handler, netVars, fsVars, cbVars>>

\* the clock, while the threads are inside or outside their blocks
TickLocked ==
  /\ now + TickStep <= MaxTime
  /\ now' = now + TickStep
  /\ UNCHANGED <<lockVars, loop, heard, qr, sendVars, running, regVars, active_transfers,
                 handler, netVars, fsVars, log, cbVars>>

InitLocks ==
  /\ InitBackend
  /\ wire = [c \in Conns |-> <<>>]
  /\ peer_end = [c \in Conns |-> "none"]

NextLocks ==
  \/ ListenLocked
  \/ SweepLocked
  \/ SnapshotLocked
  \/ HandlerLocked
  \/ PairingLocked
  \/ TickLocked

SpecLocks == InitLocks /\ [][NextLocks]_vars

(* ======================================================================= *)
(* The two locks                                                           *)
(* ======================================================================= *)
\* the lock the next statement of thread t acquires, if it is a "with"
Wants(t) ==
  LET pc == thread[t].pc IN
  IF t = "handle_item_receive"
    THEN IF pc \in {"idle", "finally"} THEN "transfer_lock"
         ELSE IF pc = "qr_lock" THEN "peers_lock" ELSE None
  ELSE IF t = "get_peer_dict" THEN IF pc = "idle" THEN "peers_lock" ELSE None
  ELSE IF pc = "lock" THEN "peers_lock" ELSE None

C32_NoCallbackUnderLock ==
  last.op \in {"callback", "socket"} => last.thread \notin peers_lock \cup transfer_lock

(* ======================================================================= *)
(* The wait for the decision                                               *)
(* ======================================================================= *)
\* the statements of handler c other than the return of confirmation_event.wait()
HandlerRuns(c) ==
  \/ RecvHeader(c)
  \/ ParseHeader(c)
  \/ QRReply(c)
  \/ SendReply(c)
  \/ OpenFile(c)
  \/ RecvPayload(c)
  \/ CheckComplete(c)
  \/ Except(c)
  \/ Finally(c)

\* a handler thread that can execute a statement does so, and its reads return
\* (data, close or timeout); whether and when the decision collaborator sets
\* the confirmation event is left open
FairUndecided == InitRecv /\ [][NextRecv]_vars /\ \A c \in Conns : WF_vars(HandlerRuns(c))

\* C33: a handler that waits for the decision terminates even if the decision
\* collaborator never resolves the request: ACCEPT is never sent unless the
\* decision was to accept, and the handler ends with its ActiveTransfer entry
\* removed
C33_DecisionWaitBounded ==
  \A c \in Conns :
    (handler[c].pc = "await") ~>
      (handler[c].pc = "done" /\ uuid4(c) \notin DOMAIN active_transfers)

(* ======================================================================= *)
(* Transfers that declare the same filename                                *)
(* ======================================================================= *)
\* handler d has written the file of that name: it opened it and has not failed
WrittenBy(d, name) ==
  /\ d \in created
  /\ NameOf(handler[d].filepath) = name
  /\ handler[d].exc = None

\* C34: when the exception handler of a failed transfer removes a file from
\* the downloads directory, that file was written by no other transfer; and
\* when a transfer opens its destination, it empties no file that another
\* transfer has written
C34_FailureDeletesOnlyOwn ==
  [][\A c \in Conns :
       /\ (handler[c].pc = "except" /\ handler'[c].pc = "finally") =>
            \A name \in DOMAIN downloads \ DOMAIN downloads' :
              \A d \in Conns \ {c} : ~WrittenBy(d, name)
       /\ (handler[c].pc = "open" /\ c \in created' /\ handler'[c].exc # None) =>
            \A d \in Conns \ {c} : ~WrittenBy(d, NameOf(handler'[c].filepath))]_vars

(* ======================================================================= *)
(* The local nickname and the registry                                     *)
(* ======================================================================= *)
\* C35: the registry has no entry under the local nickname, whichever path
\* wrote it (discovery datagram, qr_handshake on the transfer port, pairing
\* listener)
C35_NoSelfInRegistry == nickname \notin DOMAIN peers

(* ======================================================================= *)
(* Activity notifications                                                  *)
(* ======================================================================= *)
\* in the sequence of arguments of an activity callback, every False comes
\* after a True
Balanced(signals) ==
  \A i \in DOMAIN signals :
    signals[i] = FALSE => \E j \in 1..(i - 1) : signals[j] = TRUE

\* C36: receive_active_callback(False) is called for a connection only after
\* receive_active_callback(True) was called for it, and
\* send_active_callback(False) for a send attempt only after
\* send_active_callback(True) for that attempt
C36_ActivityBalanced ==
  /\ \A c \in Conns : Balanced(receive_active[c])
  /\ Balanced(send_active)

(* ======================================================================= *)
(* The eviction sweep against concurrent upserts                           *)
(* ======================================================================= *)
Sweeper == "cleanup_stale_peers"

\* C37: an entry leaves the registry only by a delete of the sweeper inside
\* its peers_lock block, and at that moment the entry as it then stands (with
\* every refresh made before the sweeper entered the block) is stale for the
\* time the sweeper read and is not pinned; while the sweeper is inside the
\* block no other thread changes the registry; and the sweeper takes no
\* deletion with it out of the block, so an upsert made after the block is not
\* undone
C37_SweepAtomic ==
  [][/\ \A n \in DOMAIN peers \ DOMAIN peers' :
          /\ last'.thread = Sweeper
          /\ Sweeper \in peers_lock
          /\ n \in StalePeers(peers, thread[Sweeper].current_time)
     /\ (Sweeper \in peers_lock /\ peers' # peers) => last'.thread = Sweeper
     /\ Sweeper \notin peers_lock' => thread'[Sweeper].stale_peers = {}]_vars

\* the sweeper has just deleted bob inside its block while the listener,
\* holding a new datagram of bob, waits for the lock
C37_Witness ==
  /\ last = [thread |-> Sweeper, op |-> "write", map |-> "peers"]
  /\ "bob" \notin DOMAIN peers
  /\ Sweeper \in peers_lock
  /\ thread["listen_for_peers"].pc = "lock"
  /\ thread["listen_for_peers"].peer_nickname = "bob"
====
